---- MODULE Spec2Model ----
(***************************************************************************)
(* Model of the DROP semantic parser (semqa/models/drop/drop_parser.py):   *)
(* the decoding part of DROPSemanticParser.forward (search-mode selection, *)
(* the three beam searches, merging of the final states, conversion to     *)
(* action sequences) and the loss aggregation.                             *)
(*                                                                         *)
(* Numbers: a score is a base-2 log-probability, an integer <= 0.  A value *)
(* produced by logsumexp is kept exactly as a record [n, e] that stands    *)
(* for log2(n / 2^e).                                                      *)
(***************************************************************************)
EXTENDS Integers, Sequences, FiniteSets, TLC

\* ------------------------------------------------------------------ bounds
MaxBatch == 2
MaxBeam == 2
MaxSteps == 5

\* ------------------------------------------------------- sequence helpers
Range(s) == {s[k] : k \in DOMAIN s}

Take(s, n) == SubSeq(s, 1, IF Len(s) < n THEN Len(s) ELSE n)

IsPrefix(p, s) == Len(p) <= Len(s) /\ SubSeq(s, 1, Len(p)) = p

RECURSIVE Flatten(_)
Flatten(ss) == IF ss = <<>> THEN <<>> ELSE Head(ss) \o Flatten(Tail(ss))

RECURSIVE SumSeq(_)
SumSeq(s) == IF s = <<>> THEN 0 ELSE Head(s) + SumSeq(Tail(s))

RECURSIVE Pow2(_)
Pow2(k) == IF k <= 0 THEN 1 ELSE 2 * Pow2(k - 1)

\* --------------------------------------------------------------- grammar
\* The per-instance action vocabulary, in the stable order that defines the
\* action ids (id = position - 1; ids start at 0 as enumerate() gives them).
\*   0  @start@ -> PassageSpanAnswer
\*   1  @start@ -> QuestionSpanAnswer
\*   2  PassageSpanAnswer -> find_passageSpanAnswer
\*   3  QuestionSpanAnswer -> [find_questionSpanAnswer, PassageAttention]
\*   4  PassageAttention -> find_PassageAttention
\*   5  PassageAttention -> [compare_date_greater_than, PassageAttention,
\*                           PassageAttention]
\*   6  PassageSpanAnswer -> [find_passageSpanAnswer, PassageAttention]
\*   7  PassageAttention -> [compare_num_greater_than, PassageAttention,
\*                           PassageAttention]
\*   8  PassageAttention -> [compare_num_lesser_than, PassageAttention,
\*                           PassageAttention]
all_possible_productions ==
    << "@start@ -> PassageSpanAnswer",
       "@start@ -> QuestionSpanAnswer",
       "PassageSpanAnswer -> find_passageSpanAnswer",
       "QuestionSpanAnswer -> [find_questionSpanAnswer, PassageAttention]",
       "PassageAttention -> find_PassageAttention",
       "PassageAttention -> [compare_date_greater_than, PassageAttention, PassageAttention]",
       "PassageSpanAnswer -> [find_passageSpanAnswer, PassageAttention]",
       "PassageAttention -> [compare_num_greater_than, PassageAttention, PassageAttention]",
       "PassageAttention -> [compare_num_lesser_than, PassageAttention, PassageAttention]" >>

ActionIds == 0 .. (Len(all_possible_productions) - 1)

\* (ids counted from 1)
enumerate_productions_FromOne(productions) ==
    [r \in Range(productions) |->
        CHOOSE i \in 1 .. Len(productions) : productions[i] = r]

\* {rule: i for i, rule in enumerate(productions)}: a key met again takes
\* the later id
enumerate_productions(productions) ==
    [r \in Range(productions) |->
        CHOOSE i \in 0 .. Len(productions) - 1 :
            /\ productions[i + 1] = r
            /\ \A j \in 0 .. Len(productions) - 1 : productions[j + 1] = r => j <= i]

\* a python list, read by 0-based index
list_by_index(productions) ==
    [i \in 0 .. Len(productions) - 1 |-> productions[i + 1]]

\* forward: action2idx_map = {rule: i for i, rule in enumerate(...)}
action2idx_map == enumerate_productions(all_possible_productions)

\* forward: idx2action_map = languages[0].all_possible_productions()
idx2action_map == list_by_index(all_possible_productions)

\* left-hand side and the nonterminals the right-hand side leaves pending
ActionLHS(a) ==
    CASE a \in {0, 1} -> "@start@"
      [] a \in {2, 6} -> "PassageSpanAnswer"
      [] a = 3 -> "QuestionSpanAnswer"
      [] OTHER -> "PassageAttention"

ActionRHS(a) ==
    CASE a = 0 -> <<"PassageSpanAnswer">>
      [] a = 1 -> <<"QuestionSpanAnswer">>
      [] a = 2 -> <<>>
      [] a \in {3, 6} -> <<"PassageAttention">>
      [] a = 4 -> <<>>
      [] OTHER -> <<"PassageAttention", "PassageAttention">>

InitialGrammarState == <<"@start@">>

\* 4.2: the valid next actions of a derivation state (its nonterminal stack)
ValidActions(stack) ==
    IF stack = <<>> THEN {}
    ELSE {a \in ActionIds : ActionLHS(a) = Head(stack)}

\* 4.2: take_action is a pure transition; is_complete iff the stack is empty
take_action(stack, a) == ActionRHS(a) \o Tail(stack)

is_complete(stack) == stack = <<>>

RECURSIVE RunGrammar(_, _)
RunGrammar(stack, acts) ==
    IF acts = <<>> THEN stack
    ELSE IF Head(acts) \in ValidActions(stack)
         THEN RunGrammar(take_action(stack, Head(acts)), Tail(acts))
         ELSE <<"@invalid@">>

\* a grammar-valid complete program
GrammarValid(acts) == acts # <<>> /\ RunGrammar(InitialGrammarState, acts) = <<>>

\* ------------------------------------------------------------------ state
VARIABLES
    \* inputs of forward (fixed during one call)
    training,                   \* self.training
    batch_size,                 \* len(actions)
    beam_size,                  \* constructor parameter beam_size
    max_decoding_steps,         \* constructor parameter max_decoding_steps
    instance_w_goldprog,        \* per instance: a gold program is supplied
    answer_program_start_types, \* per instance: list of answer-type strings
    gold_action_seqs,           \* per instance: <<idxs, masks>>, padded
    scoreTab,                   \* the transition function's action scores
    goldprogs,                  \* self._goldactions and self._goldprogs
    \* the running search
    pc,                         \* position in forward
    mode,                       \* which search is running
    search_instances,           \* original batch index of each search-local one
    keep_unfinished,            \* keep_final_unfinished_states of this search
    states,                     \* active (incomplete) states, in beam order
    finished,                   \* search-local index -> finished states
    step_num,                   \* steps taken by the running search
    firststep_allowed_actions,  \* per search-local instance: set of action ids
    allowed_sequences,          \* per search-local instance: <<idxs, masks>>
    discovered,                 \* number of successor states created so far
    search_calls,               \* the search calls made so far, with arguments
    \* results of forward
    supervised_final_states,
    unsup_final_states,
    best_final_states,
    mml_loss,
    error,
    batch_actionseqs,
    batch_actionseq_scores,
    batch_actionseq_sideargs,
    \* the denotation loss of forward
    denotation_loss_on,         \* self.denotation_loss
    batch_denotations,          \* per instance: the value of each program
    batch_denotation_types,     \* per instance: the return type of each program
    answer_as_passage_spans,    \* per instance: gold (start, end) rows, -1 padded
    answer_as_question_spans,   \* per instance: gold (start, end) rows, -1 padded
    answer_as_year_difference,  \* per instance: gold vector over year differences
    loss_i,                     \* the instance the loss loop is at
    denotation_loss,            \* the sum built by the loop
    batch_denotation_loss,      \* its value for the batch
    \* one routine of the parser called on its own
    call,                       \* the arguments of the call
    ret,                        \* what the call returned or raised
    \* the answers of forward
    predicted_answer,           \* output_dict["predicted_answer"]
    all_predicted_answers       \* output_dict["all_predicted_answers"]

inputs == << training, batch_size, beam_size, max_decoding_steps,
             instance_w_goldprog, answer_program_start_types,
             gold_action_seqs, scoreTab, goldprogs >>

searchVars == << mode, search_instances, keep_unfinished, states, finished,
                 step_num, firststep_allowed_actions, allowed_sequences,
                 discovered, search_calls >>

resultVars == << supervised_final_states, unsup_final_states,
                 best_final_states, mml_loss, error, batch_actionseqs,
                 batch_actionseq_scores, batch_actionseq_sideargs >>

lossVars == << denotation_loss_on, batch_denotations, batch_denotation_types,
               answer_as_passage_spans, answer_as_question_spans,
               answer_as_year_difference, loss_i, denotation_loss,
               batch_denotation_loss >>

callVars == << call, ret >>

outVars == << predicted_answer, all_predicted_answers >>

vars == << inputs, pc, searchVars, resultVars, lossVars, callVars, outVars >>

None == "None"

\* ------------------------------------------------------------ log values
\* [n, e, m] stands for log2(n / 2^e) - m * T, where T is so large that
\* exp(-T) vanishes beside 1 in floating point (the -1e7 that fills masked
\* positions counts MaskFill units of T).  Kept normalised, so that equal
\* values are equal records.
RECURSIVE LVNorm(_)
LVNorm(x) ==
    IF x.n = 0 THEN [n |-> 0, e |-> 0, m |-> 0]
    ELSE IF x.e > 0 /\ x.n % 2 = 0
         THEN LVNorm([n |-> x.n \div 2, e |-> x.e - 1, m |-> x.m])
    ELSE x

\* the log-probability s (an integer <= 0) as a log value
LVofScore(s) == [n |-> 1, e |-> 0 - s, m |-> 0]

LVZero == [n |-> 1, e |-> 0, m |-> 0]

\* x + y on log values: the product of the probabilities
LVAdd(x, y) == LVNorm([n |-> x.n * y.n, e |-> x.e + y.e, m |-> x.m + y.m])

\* allenutil.logsumexp over a non-empty list of log values: max + log of the
\* sum of exp(x - max); the terms that lie T or more below the maximum vanish
LVLogSumExp(xs) ==
    LET M == CHOOSE m \in {xs[k].m : k \in DOMAIN xs} :
                 \A k \in DOMAIN xs : m <= xs[k].m
        top == SelectSeq(xs, LAMBDA x : x.m = M)
        E == CHOOSE e \in {top[k].e : k \in DOMAIN top} :
                 \A k \in DOMAIN top : top[k].e <= e
    IN  LVNorm([n |-> SumSeq([k \in DOMAIN top |-> top[k].n * Pow2(E - top[k].e)]),
                e |-> E, m |-> M])

\* ------------------------------------------------------ search states
\* One decoding state (group size 1).  side_args is the debug_info channel;
\* disc numbers the states in the order the transition function made them.
SearchState(b, hist, sc, gs, sa, d) ==
    [batch_index |-> b, action_history |-> hist, score |-> sc,
     grammar_state |-> gs, side_args |-> sa, disc |-> d]

getInitialDecoderState_OneSideArg(n) ==
    [k \in 1 .. n |->
        SearchState(k - 1, <<>>, 0, InitialGrammarState, << [question_attention |-> 0] >>, 0)]

\* getInitialDecoderState: one state per instance, score 0, empty history
\* and empty side-args
getInitialDecoderState(n) ==
    [k \in 1 .. n |-> SearchState(k - 1, <<>>, 0, InitialGrammarState, <<>>, 0)]

\* ------------------------------------------------- transition function
\* The other production of the same left-hand side (itself if there is none)
Sibling(a) ==
    CASE a = 0 -> 1 [] a = 1 -> 0 [] a = 4 -> 5 [] a = 5 -> 4
      [] a = 2 -> 6 [] a = 6 -> 2 [] a = 7 -> 8 [] a = 8 -> 7 [] OTHER -> a

\* Score tables of the transition function: log-probability of each action.
\* Of the two start productions, and of find_PassageAttention against the
\* date comparison, either one is preferred or they tie; the longer
\* passage-span production and the number comparisons score lower.
PairScores == { <<0, -2>>, <<-1, -1>>, <<-2, 0>> }

ScoreTables ==
    { [a \in ActionIds |->
          CASE a = 0 -> st[1] [] a = 1 -> st[2]
            [] a = 4 -> pa[1] [] a = 5 -> pa[2]
            [] a = 6 -> -2 [] a \in {7, 8} -> -3
            [] OTHER -> 0] : st \in PairScores, pa \in PairScores }

\* instance `orig` scores by the table; odd instances prefer the sibling
ScoreOf(orig, a) ==
    IF orig % 2 = 0 THEN scoreTab[a] ELSE scoreTab[Sibling(a)]

\* the side-arg dict the transition function attaches to an action taken
SideArg(a) == [question_attention |-> a]

ActionSeq == [k \in 1 .. Cardinality(ActionIds) |-> k - 1]

\* successors of one state, restricted to `allowed`, in action-id order
SuccessorsOf(st, allowed) ==
    LET acts == SelectSeq(ActionSeq,
                    LAMBDA a : a \in ValidActions(st.grammar_state) /\ a \in allowed)
    IN  [k \in 1 .. Len(acts) |->
            SearchState(st.batch_index,
                        Append(st.action_history, acts[k]),
                        st.score + ScoreOf(search_instances[st.batch_index + 1], acts[k]),
                        take_action(st.grammar_state, acts[k]),
                        Append(st.side_args, SideArg(acts[k])),
                        0)]

\* ----------------------------------------------------- ordering, pruning
RECURSIVE InsertAsc(_, _)
InsertAsc(x, s) ==
    IF s = <<>> THEN <<x>>
    ELSE IF Head(s).score <= x.score THEN <<Head(s)>> \o InsertAsc(x, Tail(s))
    ELSE <<x>> \o s

RECURSIVE InsertDesc(_, _)
InsertDesc(x, s) ==
    IF s = <<>> THEN <<x>>
    ELSE IF Head(s).score >= x.score THEN <<Head(s)>> \o InsertDesc(x, Tail(s))
    ELSE <<x>> \o s

RECURSIVE SortInto(_, _)
SortInto(acc, s) ==
    IF s = <<>> THEN acc ELSE SortInto(InsertDesc(Head(s), acc), Tail(s))

\* stable sort by descending score: equal scores keep their order
SortDesc(s) == SortInto(<<>>, s)

\* ------------------------------------------------------------- python
\* a dict with no keys, and d[k] = v
EmptyDict == [x \in {} |-> <<>>]

DictGet(d, k) == IF k \in DOMAIN d THEN d[k] ELSE <<>>

\* list.index(x): position (from 0) of the first occurrence
ListIndex(list, x) ==
    (CHOOSE k \in DOMAIN list :
        list[k] = x /\ \A j \in DOMAIN list : j < k => list[j] # x) - 1

\* _select_indices_from_list: [list[i] for i in indices]
select_indices_from_list(list, indices) ==
    [k \in 1 .. Len(indices) |-> list[indices[k] + 1]]

\* ------------------------------------------------- constraints of a search
action_padding_index == -1

\* the gold programs of the model: each a grammar-valid complete derivation
GoldProgramLists ==
    { << <<0, 2>> >>,
      << <<0, 2>>, <<1, 3, 4>> >>,
      << <<1, 3, 4>>, <<1, 3, 5, 4, 4>> >> }

MaxLenOf(seqs) ==
    CHOOSE m \in {Len(seqs[k]) : k \in DOMAIN seqs} :
        \A k \in DOMAIN seqs : Len(seqs[k]) <= m

\* (gold_actionseq_idxs, gold_actionseq_masks) of one instance: every
\* sequence padded to the longest, the mask marking the valid length
PaddedGold(seqs) ==
    << [k \in DOMAIN seqs |->
           [j \in 1 .. MaxLenOf(seqs) |->
               IF j <= Len(seqs[k]) THEN seqs[k][j] ELSE action_padding_index]],
       [k \in DOMAIN seqs |->
           [j \in 1 .. MaxLenOf(seqs) |-> IF j <= Len(seqs[k]) THEN 1 ELSE 0]] >>

\* what an instance without gold program carries
NoGold == << << <<action_padding_index>> >>, << <<0>> >> >>

RECURSIVE ValidLen(_)
ValidLen(mask) ==
    IF mask = <<>> \/ Head(mask) = 0 THEN 0 ELSE 1 + ValidLen(Tail(mask))

\* the allowed sequences of one instance, each cut to its masked length
AllowedSeqSet(gold) ==
    {SubSeq(gold[1][k], 1, ValidLen(gold[2][k])) : k \in DOMAIN gold[1]}

\* 4.3 fully-constrained: the next actions dictated by the allowed sequences
\* that are compatible with the history
ConstrainedAllowed(gold, hist) ==
    {t[Len(hist) + 1] :
        t \in {u \in AllowedSeqSet(gold) : Len(u) > Len(hist) /\ IsPrefix(hist, u)}}

\* get_valid_start_actionids
answer_type_to_action_mapping ==
    [passage_span |-> "@start@ -> PassageSpanAnswer",
     year_difference |-> "@start@ -> YearDifference",
     question_span |-> "@start@ -> QuestionSpanAnswer"]

\* (an answer type outside the mapping taken for a passage span)
get_valid_start_actionids_DefaultType(answer_types, action2actionidx) ==
    [k \in 1 .. Len(answer_types) |->
        {action2actionidx[IF t \in DOMAIN answer_type_to_action_mapping
                          THEN answer_type_to_action_mapping[t]
                          ELSE "@start@ -> PassageSpanAnswer"] :
            t \in Range(answer_types[k])}]

get_valid_start_actionids(answer_types, action2actionidx) ==
    [k \in 1 .. Len(answer_types) |->
        {action2actionidx[answer_type_to_action_mapping[t]] :
            t \in {x \in Range(answer_types[k]) :
                      x \in DOMAIN answer_type_to_action_mapping}}]

\* ------------------------------------------------------- forward: wiring
\* supervised_instances / unsupervised_instances (original batch indices)
supervised_instances ==
    SelectSeq([k \in 1 .. batch_size |-> k - 1],
              LAMBDA i : instance_w_goldprog[i + 1] = TRUE)

\* (every instance, the supervised ones again)
unsupervised_instances_All == [k \in 1 .. batch_size |-> k - 1]

unsupervised_instances ==
    SelectSeq([k \in 1 .. batch_size |-> k - 1],
              LAMBDA i : instance_w_goldprog[i + 1] = FALSE)

supervised_gold_actionseqs_Reversed ==
    [k \in 1 .. Len(supervised_instances) |->
        gold_action_seqs[supervised_instances[(Len(supervised_instances) + 1) - k] + 1]]

supervised_gold_actionseqs ==
    select_indices_from_list(gold_action_seqs, supervised_instances)

unsupervised_answer_types_Unselected == answer_program_start_types

unsupervised_answer_types ==
    select_indices_from_list(answer_program_start_types, unsupervised_instances)

unsupervised_ins_start_actionids ==
    get_valid_start_actionids(unsupervised_answer_types, action2idx_map)

batch_valid_start_actionids ==
    get_valid_start_actionids(answer_program_start_types, action2idx_map)

\* mutants of the wiring
DecoderBeamSearchBeamSize_StepBudget == max_decoding_steps

ConstrainedSearchBeamSize_OneLess == beam_size - 1

\* the beam size each search object is constructed with
DecoderBeamSearchBeamSize == beam_size

FirstStepSearchBeamSize == beam_size

ConstrainedSearchBeamSize == beam_size

SearchNumSteps_OneMore == max_decoding_steps + 1

\* num_steps passed to search(); the fully-constrained search takes none
SearchNumSteps == max_decoding_steps

ForwardKeepUnfinished_Set == TRUE

\* keep_final_unfinished_states passed by every search call of forward
ForwardKeepUnfinished == FALSE

\* ------------------------------------------------------------ the search
SearchBeam ==
    CASE mode = "constrained" -> ConstrainedSearchBeamSize
      [] mode = "firststep" -> FirstStepSearchBeamSize
      [] OTHER -> DecoderBeamSearchBeamSize

\* the actions a state may take under the constraint of the running search
AllowedFor(st) ==
    CASE mode = "constrained" ->
             ConstrainedAllowed(allowed_sequences[st.batch_index + 1],
                                st.action_history)
      [] mode = "firststep" /\ step_num = 0 ->
             firststep_allowed_actions[st.batch_index + 1]
      [] OTHER -> ActionIds

\* 4.3: complete = the derivation is complete; under the full constraint,
\* the state has consumed one full allowed sequence
IsFinished(st) ==
    IF mode = "constrained"
    THEN st.action_history \in AllowedSeqSet(allowed_sequences[st.batch_index + 1])
    ELSE is_complete(st.grammar_state)

IsUnfinished(st) == ~IsFinished(st)

\* all successors of the active states, numbered in order of creation
take_step(sts) ==
    LET succ == Flatten([k \in 1 .. Len(sts) |-> SuccessorsOf(sts[k], AllowedFor(sts[k]))])
    IN  [k \in 1 .. Len(succ) |-> [succ[k] EXCEPT !.disc = discovered + k]]

\* top beam_size of one instance's successors, by descending score
KeepTop(succ, b) ==
    Take(SortDesc(SelectSeq(succ, LAMBDA x : x.batch_index = b)), SearchBeam)

\* the finished set of an instance: best first, capped at beam_size
CapFinished(sts) == Take(SortDesc(sts), SearchBeam)

LoopCond ==
    /\ states # <<>>
    /\ mode = "constrained" \/ step_num < SearchNumSteps

Searching == pc \in {"search", "sup_search", "unsup_search", "lib_search"}

\* one iteration of the expansion loop
SearchStep ==
    /\ Searching
    /\ LoopCond
    /\ LET succ == take_step(states)
           n == Len(search_instances)
           done(b) == SelectSeq(KeepTop(succ, b), IsFinished)
           active(b) == SelectSeq(KeepTop(succ, b), IsUnfinished)
       IN  /\ states' = Flatten([k \in 1 .. n |-> active(k - 1)])
           /\ finished' =
                [b \in {c \in 0 .. n - 1 : c \in DOMAIN finished \/ done(c) # <<>>} |->
                    CapFinished(DictGet(finished, b) \o done(b))]
           /\ discovered' = discovered + Len(succ)
    /\ step_num' = step_num + 1
    /\ UNCHANGED << inputs, callVars, outVars, lossVars, pc, mode, search_instances, keep_unfinished, search_calls,
                    firststep_allowed_actions, allowed_sequences, resultVars >>

\* what search() returns: instance -> its finished states; the states still
\* incomplete at the end follow as they are if keep_final_unfinished_states
SearchResult ==
    LET left(b) == IF keep_unfinished
                   THEN SelectSeq(states, LAMBDA x : x.batch_index = b)
                   ELSE <<>>
        n == Len(search_instances)
    IN  [b \in {c \in 0 .. n - 1 : c \in DOMAIN finished \/ left(c) # <<>>} |->
            DictGet(finished, b) \o left(b)]

\* ------------------------------------------------------ forward: results
\* merge_final_states raises KeyError when a final-states dict lacks the
\* key of an instance (an instance without finished state)
MergeKeyError(sfs, ufs, si, ui) ==
    /\ Len(si) # 0
    /\ Len(ui) # 0
    /\ \E i \in 0 .. (Len(si) + Len(ui)) - 1 :
          IF i \in Range(si) THEN ListIndex(si, i) \notin DOMAIN sfs
          ELSE ListIndex(ui, i) \notin DOMAIN ufs

merge_final_states(sfs, ufs, si, ui) ==
    IF Len(si) = 0 THEN ufs
    ELSE IF Len(ui) = 0 THEN sfs
    ELSE [i \in 0 .. (Len(si) + Len(ui)) - 1 |->
             IF i \in Range(si) THEN sfs[ListIndex(si, i)]
             ELSE ufs[ListIndex(ui, i)]]

\* -logsumexp of the raw scores of one instance's states
InstanceLogSumExp(instance_states) ==
    LVLogSumExp([k \in DOMAIN instance_states |-> LVofScore(instance_states[k].score)])

RECURSIVE SumOverKeys(_, _)
SumOverKeys(d, keys) ==
    IF keys = {} THEN LVZero
    ELSE LET k == CHOOSE x \in keys : \A y \in keys : x <= y
         IN  LVAdd(InstanceLogSumExp(d[k]), SumOverKeys(d, keys \ {k}))

MMLLoss_PerBatch(sfs) ==
    [neglog |-> SumOverKeys(sfs, DOMAIN sfs), div |-> batch_size]

MMLLoss_LastInstance(sfs) ==
    [neglog |-> InstanceLogSumExp(sfs[CHOOSE k \in DOMAIN sfs : \A j \in DOMAIN sfs : j <= k]),
     div |-> Cardinality(DOMAIN sfs)]

\* mml_loss of forward: [neglog |-> v, div |-> n] stands for -(v) / n, the
\* sum of the instances' -logsumexp divided by len(supervised_final_states);
\* n = 0 is the division that raises ZeroDivisionError
MMLLoss(sfs) ==
    [neglog |-> SumOverKeys(sfs, DOMAIN sfs), div |-> Cardinality(DOMAIN sfs)]

\* semparse_utils._convert_finalstates_to_actions
ConvertSeqs(bfs) ==
    [k \in 1 .. batch_size |->
        LET sts == DictGet(bfs, k - 1)
        IN  [j \in 1 .. Len(sts) |->
                [m \in 1 .. Len(sts[j].action_history) |->
                    idx2action_map[sts[j].action_history[m]]]]]

ConvertScores(bfs) ==
    [k \in 1 .. batch_size |->
        LET sts == DictGet(bfs, k - 1)
        IN  [j \in 1 .. Len(sts) |-> sts[j].score]]

ConvertSideArgs(bfs) ==
    [k \in 1 .. batch_size |->
        LET sts == DictGet(bfs, k - 1)
        IN  [j \in 1 .. Len(sts) |-> sts[j].side_args]]

\* ------------------------------------------------------ forward: actions
StartSearch(m, insts, fsa, als, keep) ==
    /\ mode' = m
    /\ search_instances' = insts
    /\ keep_unfinished' = keep
    /\ states' = getInitialDecoderState(Len(insts))
    /\ finished' = EmptyDict
    /\ step_num' = 0
    /\ firststep_allowed_actions' = fsa
    /\ allowed_sequences' = als
    /\ search_calls' = Append(search_calls,
                              [mode |-> m, instances |-> insts,
                               firststep_allowed_actions |-> fsa,
                               allowed_sequences |-> als])
    /\ UNCHANGED discovered

AllInstances == [k \in 1 .. batch_size |-> k - 1]

\* not training: unconstrained beam search on the whole batch
ForwardUnconstrained ==
    /\ pc = "forward"
    /\ ~training
    /\ StartSearch("unconstrained", AllInstances, <<>>, <<>>, ForwardKeepUnfinished)
    /\ pc' = "search"
    /\ UNCHANGED << inputs, callVars, outVars, lossVars, resultVars >>

\* training, no gold program in the batch: start-type constrained search
ForwardFirstStep ==
    /\ pc = "forward"
    /\ training
    /\ \A k \in 1 .. batch_size : instance_w_goldprog[k] = FALSE
    /\ StartSearch("firststep", AllInstances, batch_valid_start_actionids, <<>>,
                   ForwardKeepUnfinished)
    /\ pc' = "search"
    /\ UNCHANGED << inputs, callVars, outVars, lossVars, resultVars >>

\* training, some gold program: fully-constrained search on the supervised
ForwardSupervised ==
    /\ pc = "forward"
    /\ training
    /\ \E k \in 1 .. batch_size : instance_w_goldprog[k] = TRUE
    /\ StartSearch("constrained", supervised_instances, <<>>,
                   supervised_gold_actionseqs, FALSE)
    /\ pc' = "sup_search"
    /\ UNCHANGED << inputs, callVars, outVars, lossVars, resultVars >>

\* the single search of a batch has ended
SearchReturn ==
    /\ pc = "search"
    /\ ~LoopCond
    /\ best_final_states' = SearchResult
    /\ pc' = "decoded"
    /\ UNCHANGED << inputs, callVars, outVars, lossVars, searchVars, supervised_final_states,
                    unsup_final_states, mml_loss, error, batch_actionseqs,
                    batch_actionseq_scores, batch_actionseq_sideargs >>

\* the supervised search has ended: MML loss, then the unsupervised search
\* or, without unsupervised instances, the merge
SupervisedSearchReturn ==
    /\ pc = "sup_search"
    /\ ~LoopCond
    /\ supervised_final_states' = SearchResult
    /\ LET mml == MMLLoss(SearchResult)
       IN  IF mml.div = 0
           THEN /\ pc' = "error"
                /\ error' = "ZeroDivisionError"
                /\ UNCHANGED << searchVars, mml_loss, unsup_final_states,
                                best_final_states >>
           ELSE /\ mml_loss' = mml
                /\ error' = error
                /\ IF Len(unsupervised_instances) > 0
                   THEN /\ StartSearch("firststep", unsupervised_instances,
                                       unsupervised_ins_start_actionids, <<>>,
                                       ForwardKeepUnfinished)
                        /\ pc' = "unsup_search"
                        /\ UNCHANGED << unsup_final_states, best_final_states >>
                   ELSE /\ unsup_final_states' = EmptyDict
                        /\ best_final_states' =
                              merge_final_states(SearchResult, EmptyDict,
                                                 supervised_instances,
                                                 unsupervised_instances)
                        /\ pc' = "decoded"
                        /\ UNCHANGED searchVars
    /\ UNCHANGED << inputs, callVars, outVars, lossVars, batch_actionseqs, batch_actionseq_scores,
                    batch_actionseq_sideargs >>

\* the unsupervised search has ended: merge by original batch index
UnsupSearchReturn ==
    /\ pc = "unsup_search"
    /\ ~LoopCond
    /\ unsup_final_states' = SearchResult
    /\ IF MergeKeyError(supervised_final_states, SearchResult,
                        supervised_instances, unsupervised_instances)
       THEN /\ pc' = "error"
            /\ error' = "KeyError"
            /\ UNCHANGED best_final_states
       ELSE /\ best_final_states' =
                  merge_final_states(supervised_final_states, SearchResult,
                                     supervised_instances, unsupervised_instances)
            /\ pc' = "decoded"
            /\ error' = error
    /\ UNCHANGED << inputs, callVars, outVars, lossVars, searchVars, supervised_final_states, mml_loss,
                    batch_actionseqs, batch_actionseq_scores,
                    batch_actionseq_sideargs >>

\* ----------------------------------------- forward: gold programs instead
DATECOMP_QTYPE == "date_comparison"

NUMCOMP_QTYPE == "number_comparison"

\* what forward reads of an instance when it builds the gold programs:
\* qtypes[idx] and metadata[idx]["question_tokens"]
QuestionInputs ==
    { [qtype |-> DATECOMP_QTYPE, question_tokens |-> <<"which", "happened", "first">>],
      [qtype |-> NUMCOMP_QTYPE, question_tokens |-> <<"which", "has", "more">>],
      [qtype |-> NUMCOMP_QTYPE, question_tokens |-> <<"which", "has", "fewer">>],
      [qtype |-> "count", question_tokens |-> <<"how", "many">>] }

\* getGoldLF_numcomparison: the gold logical forms, one per start production
\* the language has
getGoldLF_numcomparison(question_tokens, productions) ==
    LET psa_start == "(find_passageSpanAnswer ("
        qsa_start == "(find_questionSpanAnswer ("
        lf2 == " find_PassageAttention find_PassageAttention))"
        greater_than == "compare_num_greater_than"
        lesser_than == "compare_num_lesser_than"
        lesser_tokens == {"smaller", "fewer", "lowest", "smallest", "less",
                          "least", "fewest", "lower"}
        operator_action ==
            IF \E t \in lesser_tokens : t \in Range(question_tokens)
            THEN lesser_than
            ELSE greater_than
    IN  (IF "@start@ -> PassageSpanAnswer" \in Range(productions)
         THEN << psa_start \o operator_action \o lf2 >> ELSE <<>>)
        \o (IF "@start@ -> QuestionSpanAnswer" \in Range(productions)
            THEN << qsa_start \o operator_action \o lf2 >> ELSE <<>>)

\* getGoldLF_datecomparison (the two-argument definition, which replaces
\* the one before it): a later-token in the question overrides a first-token
getGoldLF_datecomparison_TwoBlanks(question_tokens, productions) ==
    LET psa_start == "(find_passageSpanAnswer ("
        qsa_start == "(find_questionSpanAnswer ("
        lf2 == "  find_PassageAttention find_PassageAttention))"
        operator_action == "compare_date_greater_than"
    IN  (IF "@start@ -> PassageSpanAnswer" \in Range(productions)
         THEN << psa_start \o operator_action \o lf2 >> ELSE <<>>)
        \o (IF "@start@ -> QuestionSpanAnswer" \in Range(productions)
            THEN << qsa_start \o operator_action \o lf2 >> ELSE <<>>)

getGoldLF_datecomparison(question_tokens, productions) ==
    LET psa_start == "(find_passageSpanAnswer ("
        qsa_start == "(find_questionSpanAnswer ("
        lf2 == " find_PassageAttention find_PassageAttention))"
        greater_than == "compare_date_greater_than"
        lesser_than == "compare_date_lesser_than"
        lesser_tokens == {"first", "earlier", "forst", "firts"}
        greater_tokens == {"later", "last", "second"}
        operator_action ==
            IF \E t \in greater_tokens : t \in Range(question_tokens)
            THEN greater_than
            ELSE IF \E t \in lesser_tokens : t \in Range(question_tokens)
            THEN lesser_than
            ELSE greater_than
    IN  (IF "@start@ -> PassageSpanAnswer" \in Range(productions)
         THEN << psa_start \o operator_action \o lf2 >> ELSE <<>>)
        \o (IF "@start@ -> QuestionSpanAnswer" \in Range(productions)
            THEN << qsa_start \o operator_action \o lf2 >> ELSE <<>>)

\* ------------------------------------------------- logical forms and back
\* the predicates of the language: argument types and return type
PredicateTypes ==
    [find_PassageAttention |-> [args |-> <<>>, ret |-> "PassageAttention"],
     compare_date_greater_than |->
        [args |-> <<"PassageAttention", "PassageAttention">>, ret |-> "PassageAttention"],
     compare_date_lesser_than |->
        [args |-> <<"PassageAttention", "PassageAttention">>, ret |-> "PassageAttention"],
     compare_num_greater_than |->
        [args |-> <<"PassageAttention", "PassageAttention">>, ret |-> "PassageAttention"],
     compare_num_lesser_than |->
        [args |-> <<"PassageAttention", "PassageAttention">>, ret |-> "PassageAttention"],
     find_passageSpanAnswer |-> [args |-> <<"PassageAttention">>, ret |-> "PassageSpanAnswer"],
     find_questionSpanAnswer |-> [args |-> <<"PassageAttention">>, ret |-> "QuestionSpanAnswer"]]

\* the types that have productions
Nonterminals == {"@start@"} \cup {PredicateTypes[p].ret : p \in DOMAIN PredicateTypes}

\* str.join
RECURSIVE str_join(_, _)
str_join(sep, strs) ==
    IF strs = <<>> THEN ""
    ELSE IF Len(strs) = 1 THEN strs[1]
    ELSE strs[1] \o sep \o str_join(sep, Tail(strs))

\* s[i:] of a string, i from 0
StrFrom(s, i) == SubSeq(s, i + 1, Len(s))

StartsWith(s, prefix) ==
    Len(s) >= Len(prefix) /\ SubSeq(s, 1, Len(prefix)) = prefix

\* str.find: the first place of sub in s, from 0; -1 if there is none
str_find(s, sub) ==
    LET places == {k \in 0 .. Len(s) - Len(sub) : SubSeq(s, k + 1, k + Len(sub)) = sub}
    IN  IF places = {} THEN -1
        ELSE CHOOSE k \in places : \A j \in places : k <= j

\* str.split(sep)
RECURSIVE str_split_on(_, _)
str_split_on(s, sep) ==
    LET k == str_find(s, sep)
    IN  IF k = -1 THEN << s >>
        ELSE << SubSeq(s, 1, k) >> \o str_split_on(StrFrom(s, k + Len(sep)), sep)

\* str.split(): the words between blanks
str_split(s) == SelectSeq(str_split_on(s, " "), LAMBDA w : w # "")

\* str.replace(c, "") for a character c
RECURSIVE str_remove(_, _)
str_remove(s, c) ==
    IF s = "" THEN ""
    ELSE (IF SubSeq(s, 1, 1) = c THEN "" ELSE SubSeq(s, 1, 1))
            \o str_remove(StrFrom(s, 1), c)

RECURSIVE LeadingParens(_)
LeadingParens(token) ==
    IF StartsWith(token, "(") THEN 1 + LeadingParens(StrFrom(token, 1)) ELSE 0

RECURSIVE TrailingParens(_)
TrailingParens(token) ==
    IF token # "" /\ SubSeq(token, Len(token), Len(token)) = ")"
    THEN 1 + TrailingParens(SubSeq(token, 1, Len(token) - 1))
    ELSE 0

\* lisp_to_nested_expression: the words of the string; each leading "(" of a
\* word opens a list, the word without parentheses is the next element, each
\* trailing ")" closes a list.  The nested lists are kept as the sequence of
\* their elements with "(" and ")" around each list.
lisp_to_nested_expression(lisp_string) ==
    Flatten([k \in DOMAIN str_split(lisp_string) |->
                LET token == str_split(lisp_string)[k]
                    stripped == StrFrom(token, LeadingParens(token))
                IN  [j \in 1 .. LeadingParens(token) |-> "("]
                      \o << str_remove(stripped, ")") >>
                      \o [j \in 1 .. TrailingParens(stripped) |-> ")"]])

ParsingError == [err |-> "ParsingError", transitions |-> <<>>, type |-> "", rest |-> <<>>]

\* _get_transitions: the productions of the expression at the head of the
\* tokens, function first, then its arguments left to right
RECURSIVE get_transitions(_, _)
RECURSIVE get_argument_transitions(_, _)
get_transitions(expression, expected_type) ==
    IF expression = <<>> THEN ParsingError
    ELSE IF Head(expression) = "("
    THEN IF Len(expression) < 2 \/ expression[2] \notin DOMAIN PredicateTypes
         THEN ParsingError
         ELSE LET name == expression[2]
                  function_type == PredicateTypes[name]
                  arguments == get_argument_transitions(SubSeq(expression, 3, Len(expression)),
                                                        function_type.args)
                  right_side == "[" \o str_join(", ", << name >> \o function_type.args) \o "]"
              IN  IF \/ function_type.args = <<>>
                     \/ (expected_type # "" /\ expected_type # function_type.ret)
                     \/ arguments.err # None
                     \/ arguments.rest = <<>>
                     \/ Head(arguments.rest) # ")"
                  THEN ParsingError
                  ELSE [err |-> None,
                        transitions |-> << function_type.ret \o " -> " \o right_side >>
                                            \o arguments.transitions,
                        type |-> function_type.ret,
                        rest |-> Tail(arguments.rest)]
    ELSE IF \/ Head(expression) \notin DOMAIN PredicateTypes
            \/ PredicateTypes[Head(expression)].args # <<>>
            \/ (expected_type # "" /\ expected_type # PredicateTypes[Head(expression)].ret)
    THEN ParsingError
    ELSE [err |-> None,
          transitions |-> << PredicateTypes[Head(expression)].ret \o " -> " \o Head(expression) >>,
          type |-> PredicateTypes[Head(expression)].ret,
          rest |-> Tail(expression)]

get_argument_transitions(expression, argument_types) ==
    IF argument_types = <<>>
    THEN [err |-> None, transitions |-> <<>>, type |-> "", rest |-> expression]
    ELSE LET first == get_transitions(expression, Head(argument_types))
             others == get_argument_transitions(first.rest, Tail(argument_types))
         IN  IF first.err # None \/ others.err # None THEN ParsingError
             ELSE [err |-> None,
                   transitions |-> first.transitions \o others.transitions,
                   type |-> "",
                   rest |-> others.rest]

\* languages[idx].logical_form_to_action_sequence: the start production, then
\* the productions of the expression; no sequence for a string that is not a
\* logical form of the language
logical_form_to_action_sequence(lf) ==
    LET parsed == get_transitions(lisp_to_nested_expression(lf), "")
    IN  IF parsed.err # None \/ parsed.rest # <<>> THEN <<>>
        ELSE << "@start@ -> " \o parsed.type >> \o parsed.transitions

\* nltk_tree_to_logical_form of a node with these children
tree_to_logical_form(label, children) ==
    IF children = <<>> THEN label
    ELSE IF Len(children) = 1 THEN children[1]
    ELSE "(" \o str_join(" ", children) \o ")"

NodeError == [err |-> "ParsingError", lf |-> "", lfs |-> <<>>, rest |-> <<>>]

\* _construct_node_from_actions: the node labelled current_node takes the
\* next action; a bracketed right side gives one child per element, and a
\* child that is a nonterminal takes the actions after it
RECURSIVE construct_node_from_actions(_, _)
RECURSIVE construct_children(_, _)
construct_node_from_actions(current_node, remaining_actions) ==
    IF remaining_actions = <<>> THEN NodeError
    ELSE LET sides == str_split_on(Head(remaining_actions), " -> ")
         IN  IF Len(sides) # 2 \/ sides[1] # current_node THEN NodeError
             ELSE IF StartsWith(sides[2], "[")
             THEN LET children ==
                          construct_children(
                              str_split_on(SubSeq(sides[2], 2, Len(sides[2]) - 1), ", "),
                              Tail(remaining_actions))
                  IN  IF children.err # None THEN NodeError
                      ELSE [err |-> None,
                            lf |-> tree_to_logical_form(current_node, children.lfs),
                            lfs |-> <<>>,
                            rest |-> children.rest]
             ELSE [err |-> None,
                   lf |-> tree_to_logical_form(current_node, << sides[2] >>),
                   lfs |-> <<>>,
                   rest |-> Tail(remaining_actions)]

construct_children(child_types, remaining_actions) ==
    IF child_types = <<>>
    THEN [err |-> None, lf |-> "", lfs |-> <<>>, rest |-> remaining_actions]
    ELSE LET first ==
                 IF Head(child_types) \in Nonterminals
                 THEN construct_node_from_actions(Head(child_types), remaining_actions)
                 ELSE [err |-> None, lf |-> Head(child_types), lfs |-> <<>>,
                       rest |-> remaining_actions]
             others == construct_children(Tail(child_types), first.rest)
         IN  IF first.err # None \/ others.err # None THEN NodeError
             ELSE [err |-> None, lf |-> "",
                   lfs |-> << first.lf >> \o others.lfs,
                   rest |-> others.rest]

\* languages[idx].action_sequence_to_logical_form: the tree built from the
\* actions after the start action, rendered
action_sequence_to_logical_form(action_sequence) ==
    IF action_sequence = <<>> THEN [err |-> "ParsingError", lf |-> ""]
    ELSE LET start == str_split_on(Head(action_sequence), " -> ")
             tree == construct_node_from_actions(start[2], Tail(action_sequence))
         IN  IF Len(start) # 2 \/ tree.err # None \/ tree.rest # <<>>
             THEN [err |-> "ParsingError", lf |-> ""]
             ELSE [err |-> None, lf |-> tree.lf]

\* one round of the loop that builds gold_batch_actionseqs: the exception
\* it raises, or the gold action sequence.  getGoldLF_datecomparison is
\* called without its `language` argument (TypeError); `gold_lf, _ = ...`
\* needs exactly two logical forms (ValueError otherwise)
GoldProgramOf(q) ==
    IF q.qtype = DATECOMP_QTYPE
    THEN [err |-> "TypeError", seq |-> <<>>]
    ELSE IF q.qtype = NUMCOMP_QTYPE
    THEN LET lfs == getGoldLF_numcomparison(q.question_tokens, all_possible_productions)
         IN  IF Len(lfs) # 2
             THEN [err |-> "ValueError", seq |-> <<>>]
             ELSE [err |-> None, seq |-> logical_form_to_action_sequence(lfs[1])]
    ELSE [err |-> "NotImplementedError", seq |-> <<>>]

\* GoldProgramOf over the questions of the model
GoldPrograms == [q \in QuestionInputs |-> GoldProgramOf(q)]

\* the exception of the first instance that raises one, None if none does
RECURSIVE FirstError(_)
FirstError(outs) ==
    IF outs = <<>> THEN None
    ELSE IF Head(outs).err # None THEN Head(outs).err
    ELSE FirstError(Tail(outs))

\* final states to action sequences, scores and side-args per instance; with
\* goldactions and goldprogs set the action sequences are then replaced by
\* one gold program per instance, the side-args stay those of the search
ConvertFinalStates ==
    /\ pc = "decoded"
    /\ batch_actionseq_scores' = ConvertScores(best_final_states)
    /\ batch_actionseq_sideargs' = ConvertSideArgs(best_final_states)
    /\ IF goldprogs
       THEN \E qs \in [1 .. batch_size -> QuestionInputs] :
               LET outs == [k \in 1 .. batch_size |-> GoldPrograms[qs[k]]]
               IN  IF FirstError(outs) # None
                   THEN /\ batch_actionseqs' = ConvertSeqs(best_final_states)
                        /\ error' = FirstError(outs)
                        /\ pc' = "error"
                   ELSE /\ batch_actionseqs' =
                              [k \in 1 .. batch_size |-> << outs[k].seq >>]
                        /\ error' = error
                        /\ pc' = "done"
       ELSE /\ batch_actionseqs' = ConvertSeqs(best_final_states)
            /\ error' = error
            /\ pc' = "done"
    /\ UNCHANGED << inputs, callVars, outVars, lossVars, searchVars, supervised_final_states,
                    unsup_final_states, best_final_states, mml_loss >>

\* ------------------------------------------------ forward: denotation loss
\* units of T (see log values) in the -1e7 that fills masked spans, and in
\* log(1e-40)
MaskFill == 1000

TinyLog == 1

\* (the padded rows filled with 0 instead of -1e7)
get_span_answer_log_prob_ZeroFill(answer_as_spans, span_log_probs) ==
    LVLogSumExp([k \in DOMAIN answer_as_spans |->
                    IF answer_as_spans[k][1] # -1
                    THEN LVofScore(span_log_probs[1][answer_as_spans[k][1] + 1]
                                     + span_log_probs[2][answer_as_spans[k][2] + 1])
                    ELSE LVZero])

\* _get_span_answer_log_prob: log of the summed probability of the gold
\* spans; a row whose start is -1 is padding: it is looked up at index 0 and
\* its log-likelihood then replaced by -1e7
get_span_answer_log_prob(answer_as_spans, span_log_probs) ==
    LET gold_passage_span_mask ==
            [k \in DOMAIN answer_as_spans |->
                IF answer_as_spans[k][1] # -1 THEN 1 ELSE 0]
        clamped(k, c) ==
            IF gold_passage_span_mask[k] = 1 THEN answer_as_spans[k][c] ELSE 0
        log_likelihood_for_spans ==
            [k \in DOMAIN answer_as_spans |->
                IF gold_passage_span_mask[k] = 1
                THEN LVofScore(span_log_probs[1][clamped(k, 1) + 1]
                                 + span_log_probs[2][clamped(k, 2) + 1])
                ELSE [n |-> 1, e |-> 0, m |-> MaskFill]]
    IN  LVLogSumExp(log_likelihood_for_spans)

\* torch.sum(torch.log(dist + 1e-40) * gold): a probability is n / 2^e; the
\* 1e-40 vanishes beside a positive one and is all there is beside 0
RECURSIVE year_difference_log_prob(_, _)
year_difference_log_prob(pred_year_difference_dist, gold_year_difference_dist) ==
    IF pred_year_difference_dist = <<>> THEN LVZero
    ELSE LET p == Head(pred_year_difference_dist)
             lp == IF p.n = 0 THEN [n |-> 1, e |-> 0, m |-> TinyLog]
                   ELSE LVNorm([n |-> p.n, e |-> p.e, m |-> 0])
             rest == year_difference_log_prob(Tail(pred_year_difference_dist),
                                              Tail(gold_year_difference_dist))
         IN  IF Head(gold_year_difference_dist) = 1 THEN LVAdd(lp, rest) ELSE rest

KnownProgTypes == {"PassageSpanAnswer", "QuestionSpanAnswer", "YearDifference"}

\* the log-likelihood of program progidx of instance i against the gold
\* answer of its return type
ProgramLogLikelihood_PassageGoldOnly(i, progidx) ==
    LET denotation == batch_denotations[i][progidx]
        progtype == batch_denotation_types[i][progidx]
    IN  IF progtype = "YearDifference"
        THEN year_difference_log_prob(denotation, answer_as_year_difference[i])
        ELSE get_span_answer_log_prob(answer_as_passage_spans[i], denotation)

ProgramLogLikelihood(i, progidx) ==
    LET denotation == batch_denotations[i][progidx]
        progtype == batch_denotation_types[i][progidx]
    IN  CASE progtype = "PassageSpanAnswer" ->
                get_span_answer_log_prob(answer_as_passage_spans[i], denotation)
          [] progtype = "QuestionSpanAnswer" ->
                get_span_answer_log_prob(answer_as_question_spans[i], denotation)
          [] OTHER ->
                year_difference_log_prob(denotation, answer_as_year_difference[i])

\* the exception one round of the loop raises: NotImplementedError at the
\* first program of another type, else RuntimeError from torch.stack on an
\* empty list
InstanceLossError_SkipUnknown(i) ==
    IF Len(batch_denotations[i]) = 0 THEN "RuntimeError" ELSE None

InstanceLossError(i) ==
    IF \E j \in DOMAIN batch_denotation_types[i] :
          batch_denotation_types[i][j] \notin KnownProgTypes
    THEN "NotImplementedError"
    ELSE IF Len(batch_denotations[i]) = 0 THEN "RuntimeError"
    ELSE None

instance_marginal_log_likelihood_BestProgram(i) ==
    LVAdd(ProgramLogLikelihood(i, 1), LVofScore(batch_actionseq_scores[i][1]))

\* logsumexp over the programs of instance i of (denotation log-likelihood +
\* program log-probability)
instance_marginal_log_likelihood(i) ==
    LVLogSumExp([progidx \in DOMAIN batch_denotations[i] |->
                    LVAdd(ProgramLogLikelihood(i, progidx),
                          LVofScore(batch_actionseq_scores[i][progidx]))])

DenotationLossDivisor_PerProgram ==
    SumSeq([i \in 1 .. batch_size |-> Len(batch_denotations[i])])

\* batch_denotation_loss = denotation_loss / batch_size
DenotationLossDivisor == batch_size

\* if self.denotation_loss is unset the loss stays 0
SkipDenotationLoss ==
    /\ pc = "losses"
    /\ ~denotation_loss_on
    /\ batch_denotation_loss' = [neglog |-> LVZero, div |-> 1]
    /\ pc' = "loss_done"
    /\ UNCHANGED << inputs, callVars, outVars, searchVars, resultVars, denotation_loss_on,
                    batch_denotations, batch_denotation_types,
                    answer_as_passage_spans, answer_as_question_spans,
                    answer_as_year_difference, loss_i, denotation_loss >>

\* one round of `for i in range(batch_size)`
DenotationLossInstance ==
    /\ pc = "losses"
    /\ denotation_loss_on
    /\ loss_i < batch_size
    /\ IF InstanceLossError(loss_i + 1) # None
       THEN /\ error' = InstanceLossError(loss_i + 1)
            /\ pc' = "error"
            /\ UNCHANGED << loss_i, denotation_loss >>
       ELSE /\ denotation_loss' =
                  LVAdd(denotation_loss, instance_marginal_log_likelihood(loss_i + 1))
            /\ loss_i' = loss_i + 1
            /\ UNCHANGED << pc, error >>
    /\ UNCHANGED << inputs, callVars, outVars, searchVars, supervised_final_states,
                    unsup_final_states, best_final_states, mml_loss,
                    batch_actionseqs, batch_actionseq_scores,
                    batch_actionseq_sideargs, denotation_loss_on,
                    batch_denotations, batch_denotation_types,
                    answer_as_passage_spans, answer_as_question_spans,
                    answer_as_year_difference, batch_denotation_loss >>

\* after the loop
DenotationLossBatch ==
    /\ pc = "losses"
    /\ denotation_loss_on
    /\ loss_i = batch_size
    /\ batch_denotation_loss' =
          [neglog |-> denotation_loss, div |-> DenotationLossDivisor]
    /\ pc' = "loss_done"
    /\ UNCHANGED << inputs, callVars, outVars, searchVars, resultVars, denotation_loss_on,
                    batch_denotations, batch_denotation_types,
                    answer_as_passage_spans, answer_as_question_spans,
                    answer_as_year_difference, loss_i, denotation_loss >>

\* ------------------------------------------------ forward: the answers
\* get_best_span: the (start, end) with start <= end of the highest summed
\* logit, the first such in row-major order
get_best_span(span_start_logits, span_end_logits) ==
    LET L == Len(span_start_logits)
        cand == {c \in (0 .. L - 1) \X (0 .. L - 1) : c[1] <= c[2]}
        val(c) == span_start_logits[c[1] + 1] + span_end_logits[c[2] + 1]
        flat(c) == c[1] * L + c[2]
    IN  CHOOSE c \in cand :
            \A d \in cand :
                val(d) < val(c) \/ (val(d) = val(c) /\ flat(c) <= flat(d))

\* torch.argmax over probabilities n / 2^e: the first index of the maximum
argmax(dist) ==
    LET k == CHOOSE k \in DOMAIN dist :
                 \A j \in DOMAIN dist :
                     LET a == dist[k].n * Pow2(dist[j].e)
                         b == dist[j].n * Pow2(dist[k].e)
                     IN  a > b \/ (a = b /\ k <= j)
    IN  k - 1

\* the answer string of program progidx of instance i, as the text it is cut
\* from and the place in it
PredictedAnswerOf(i, progidx) ==
    LET denotation == batch_denotations[i][progidx]
        progtype == batch_denotation_types[i][progidx]
    IN  CASE progtype = "PassageSpanAnswer" ->
                LET best_span == get_best_span(denotation[1], denotation[2])
                IN  <<"original_passage", best_span[1], best_span[2]>>
          [] progtype = "QuestionSpanAnswer" ->
                LET best_span == get_best_span(denotation[1], denotation[2])
                IN  <<"original_question", best_span[1], best_span[2]>>
          [] OTHER ->
                <<"year_differences", argmax(denotation), argmax(denotation)>>

\* instance_predicted_answer = all_instance_progs_predicted_answer_strs[0]
InstancePredictedAnswer(i) == PredictedAnswerOf(i, 1)

\* the exception one round of the answer loop raises: NotImplementedError at
\* the first program of another type, else IndexError from [0] on an empty
\* list
InstanceAnswerError(i) ==
    IF \E j \in DOMAIN batch_denotation_types[i] :
          batch_denotation_types[i][j] \notin KnownProgTypes
    THEN "NotImplementedError"
    ELSE IF Len(batch_denotations[i]) = 0 THEN "IndexError"
    ELSE None

\* `for i in range(batch_size)` over the instances: the answers of all
\* programs, the first one being the instance's predicted answer
PredictAnswers ==
    /\ pc = "loss_done"
    /\ LET bad == {i \in 1 .. batch_size : InstanceAnswerError(i) # None}
           upto == IF bad = {} THEN batch_size
                   ELSE (CHOOSE i \in bad : \A j \in bad : i <= j) - 1
       IN  /\ predicted_answer' = [i \in 1 .. upto |-> InstancePredictedAnswer(i)]
           /\ all_predicted_answers' =
                  [i \in 1 .. upto |->
                      [j \in DOMAIN batch_denotations[i] |-> PredictedAnswerOf(i, j)]]
           /\ IF bad = {}
              THEN /\ pc' = "answered"
                   /\ error' = error
              ELSE /\ pc' = "error"
                   /\ error' = InstanceAnswerError(upto + 1)
    /\ UNCHANGED << inputs, callVars, searchVars, lossVars,
                    supervised_final_states, unsup_final_states,
                    best_final_states, mml_loss, batch_actionseqs,
                    batch_actionseq_scores, batch_actionseq_sideargs >>

\* ------------------------------------------------------------------ Init
StartTypeLists ==
    { <<"passage_span">>, <<"question_span">>, <<"passage_span", "question_span">> }

GoldInputs == {PaddedGold(g) : g \in GoldProgramLists}

InitSearchVars ==
    /\ mode = None
    /\ search_instances = <<>>
    /\ keep_unfinished = FALSE
    /\ states = <<>>
    /\ finished = EmptyDict
    /\ step_num = 0
    /\ firststep_allowed_actions = <<>>
    /\ allowed_sequences = <<>>
    /\ discovered = 0
    /\ search_calls = <<>>

\* nothing decoded yet: no final states, no action sequences
InitResultVars ==
    /\ supervised_final_states = EmptyDict
    /\ unsup_final_states = EmptyDict
    /\ best_final_states = EmptyDict
    /\ mml_loss = [neglog |-> LVZero, div |-> 1]
    /\ error = None
    /\ batch_actionseqs = <<>>
    /\ batch_actionseq_scores = <<>>
    /\ batch_actionseq_sideargs = <<>>

\* forward before its loss part
LossNotStarted ==
    /\ batch_denotations = <<>>
    /\ batch_denotation_types = <<>>
    /\ answer_as_passage_spans = <<>>
    /\ answer_as_question_spans = <<>>
    /\ answer_as_year_difference = <<>>
    /\ loss_i = 0
    /\ denotation_loss = LVZero
    /\ batch_denotation_loss = [neglog |-> LVZero, div |-> 1]

InitLossVars ==
    /\ denotation_loss_on = TRUE
    /\ LossNotStarted

\* output_dict has no answers yet
InitOutVars ==
    /\ predicted_answer = <<>>
    /\ all_predicted_answers = <<>>

\* no routine is called on its own during forward
InitCallVars ==
    /\ call = <<>>
    /\ ret = <<>>

\* the inputs of forward, nothing decoded
ForwardInputs ==
    /\ training \in BOOLEAN
    /\ batch_size \in 1 .. MaxBatch
    /\ beam_size \in 1 .. MaxBeam
    /\ max_decoding_steps \in 1 .. MaxSteps
    /\ instance_w_goldprog \in [1 .. batch_size -> BOOLEAN]
    /\ answer_program_start_types \in [1 .. batch_size -> StartTypeLists]
    /\ gold_action_seqs \in [1 .. batch_size -> GoldInputs \cup {NoGold}]
    /\ \A k \in 1 .. batch_size :
          /\ instance_w_goldprog[k] <=> gold_action_seqs[k] # NoGold
          /\ instance_w_goldprog[k] => answer_program_start_types[k] = <<"passage_span">>
    /\ scoreTab \in ScoreTables
    /\ goldprogs \in BOOLEAN
    /\ pc = "forward"
    /\ InitSearchVars
    /\ InitResultVars

\* the batches of a run: gold programs come with training batches only
ForwardEntry ==
    /\ ForwardInputs
    /\ training = FALSE => \A k \in 1 .. batch_size : instance_w_goldprog[k] = FALSE

Init ==
    /\ InitLossVars
    /\ InitCallVars
    /\ InitOutVars
    /\ ForwardEntry

Next ==
    \/ ForwardUnconstrained
    \/ ForwardFirstStep
    \/ ForwardSupervised
    \/ SearchStep
    \/ SearchReturn
    \/ SupervisedSearchReturn
    \/ UnsupSearchReturn
    \/ ConvertFinalStates

Spec == Init /\ [][Next]_vars

\* forward is sequential code: a step that can be taken is taken.  Some
\* step of Next can be taken exactly at these positions of forward
NextEnabled ==
    pc \in {"forward", "search", "sup_search", "unsup_search", "decoded"}

\* weak fairness of Next, WF_vars(Next), with ENABLED <<Next>>_vars written
\* as the positions at which forward has a next step
FairSpec == Spec /\ ([]<>(~NextEnabled) \/ []<><<Next>>_vars)

\* Next together with an idle step where forward has ended; this
\* specification has no state without successor unless NextEnabled is wrong
SpecHalting == Init /\ [][Next \/ (~NextEnabled /\ UNCHANGED vars)]_vars

\* ------------------------------------ the search called outside forward
\* search(num_steps, initial_state, transition_function, ...,
\* keep_final_unfinished_states) on the whole batch, with either value of
\* the flag
LibSearch ==
    /\ pc = "forward"
    /\ \E m \in {"unconstrained", "firststep"}, keep \in BOOLEAN :
          StartSearch(m, AllInstances,
                      IF m = "firststep" THEN batch_valid_start_actionids ELSE <<>>,
                      <<>>, keep)
    /\ pc' = "lib_search"
    /\ UNCHANGED << inputs, callVars, outVars, lossVars, resultVars >>

LibSearchReturn ==
    /\ pc = "lib_search"
    /\ ~LoopCond
    /\ best_final_states' = SearchResult
    /\ pc' = "lib_returned"
    /\ UNCHANGED << inputs, callVars, outVars, lossVars, searchVars, supervised_final_states,
                    unsup_final_states, mml_loss, error, batch_actionseqs,
                    batch_actionseq_scores, batch_actionseq_sideargs >>

NextSearch ==
    \/ ForwardUnconstrained
    \/ ForwardFirstStep
    \/ ForwardSupervised
    \/ SearchStep
    \/ SearchReturn
    \/ SupervisedSearchReturn
    \/ UnsupSearchReturn
    \/ ConvertFinalStates
    \/ LibSearch
    \/ LibSearchReturn

SpecSearch == Init /\ [][NextSearch]_vars

\* ------------------------------- the loss part of forward on given programs
\* a program as the loss sees it: return type, score, value of the denotation
Program(t, sc, v) == [type |-> t, score |-> sc, value |-> v]

\* span denotations: (start log-probs, end log-probs) over two tokens
SpanA == << <<-1, -1>>, <<-1, -1>> >>

SpanB == << <<0, -2>>, <<-2, 0>> >>

\* year-difference denotations: probabilities n / 2^e of two values
DistA == << [n |-> 1, e |-> 1], [n |-> 1, e |-> 1] >>

DistB == << [n |-> 1, e |-> 0], [n |-> 0, e |-> 0] >>

\* the programs of an instance, best first; none for a starved instance
ProgramLists ==
    { << Program("PassageSpanAnswer", 0, SpanA) >>,
      << Program("PassageSpanAnswer", -1, SpanB),
         Program("QuestionSpanAnswer", -2, SpanA) >>,
      << Program("QuestionSpanAnswer", -1, SpanB),
         Program("YearDifference", -1, DistA) >>,
      << Program("YearDifference", 0, DistB) >>,
      << >>,
      << Program("PassageSpanAnswer", 0, SpanA),
         Program("PassageNumber", -1, DistA) >> }

\* the gold answers of an instance, one entry per answer type
GoldAnswers ==
    { [passage_spans |-> << <<0, 0>> >>,
       question_spans |-> << <<1, 1>> >>,
       year_difference |-> <<1, 0>>],
      [passage_spans |-> << <<0, 1>>, <<-1, -1>> >>,
       question_spans |-> << <<0, 0>>, <<1, 1>> >>,
       year_difference |-> <<0, 1>>],
      [passage_spans |-> << <<-1, -1>> >>,
       question_spans |-> << <<0, 1>> >>,
       year_difference |-> <<0, 1>>],
      [passage_spans |-> << <<1, 1>>, <<0, 0>> >>,
       question_spans |-> << <<-1, -1>>, <<-1, -1>> >>,
       year_difference |-> <<1, 1>>] }

LossInstances == {[progs |-> p, gold |-> g] : p \in ProgramLists, g \in GoldAnswers}

\* forward at `if self.denotation_loss:`, the programs executed
InitLoss ==
    /\ training = TRUE
    /\ batch_size \in 1 .. MaxBatch
    /\ beam_size = MaxBeam
    /\ max_decoding_steps = MaxSteps
    /\ instance_w_goldprog = [k \in 1 .. batch_size |-> FALSE]
    /\ answer_program_start_types =
          [k \in 1 .. batch_size |-> <<"passage_span", "question_span">>]
    /\ gold_action_seqs = [k \in 1 .. batch_size |-> NoGold]
    /\ scoreTab = [a \in ActionIds |-> 0]
    /\ goldprogs = FALSE
    /\ pc = "losses"
    /\ InitSearchVars
    /\ supervised_final_states = EmptyDict
    /\ unsup_final_states = EmptyDict
    /\ best_final_states = EmptyDict
    /\ mml_loss = [neglog |-> LVZero, div |-> 1]
    /\ error = None
    /\ batch_actionseqs = <<>>
    /\ batch_actionseq_sideargs = <<>>
    /\ denotation_loss_on \in BOOLEAN
    /\ \E c \in [1 .. batch_size -> LossInstances] :
          /\ batch_actionseq_scores =
                [k \in 1 .. batch_size |->
                    [j \in DOMAIN c[k].progs |-> c[k].progs[j].score]]
          /\ batch_denotations =
                [k \in 1 .. batch_size |->
                    [j \in DOMAIN c[k].progs |-> c[k].progs[j].value]]
          /\ batch_denotation_types =
                [k \in 1 .. batch_size |->
                    [j \in DOMAIN c[k].progs |-> c[k].progs[j].type]]
          /\ answer_as_passage_spans =
                [k \in 1 .. batch_size |-> c[k].gold.passage_spans]
          /\ answer_as_question_spans =
                [k \in 1 .. batch_size |-> c[k].gold.question_spans]
          /\ answer_as_year_difference =
                [k \in 1 .. batch_size |-> c[k].gold.year_difference]
    /\ loss_i = 0
    /\ denotation_loss = LVZero
    /\ batch_denotation_loss = [neglog |-> LVZero, div |-> 1]
    /\ InitCallVars
    /\ InitOutVars

NextLoss ==
    \/ SkipDenotationLoss
    \/ DenotationLossInstance
    \/ DenotationLossBatch
    \/ PredictAnswers

SpecLoss == InitLoss /\ [][NextLoss]_vars

\* --------------------------------------------- forward from entry to end
\* _get_denotations: a program returns the type its start production names
ProgramType(actionseq) ==
    IF actionseq[1] = "@start@ -> PassageSpanAnswer"
    THEN "PassageSpanAnswer"
    ELSE "QuestionSpanAnswer"

\* the value a program of that type is executed to
DenotationValue(progtype) == IF progtype = "PassageSpanAnswer" THEN SpanB ELSE SpanA

\* the gold answers every instance comes with
ForwardGold ==
    [passage_spans |-> << <<0, 1>>, <<-1, -1>> >>,
     question_spans |-> << <<0, 0>>, <<1, 1>> >>,
     year_difference |-> <<0, 1>>]

\* batch_denotations, batch_denotation_types = self._get_denotations(...)
ExecutePrograms ==
    /\ pc = "done"
    /\ batch_denotation_types' =
          [k \in 1 .. batch_size |->
              [j \in DOMAIN batch_actionseqs[k] |-> ProgramType(batch_actionseqs[k][j])]]
    /\ batch_denotations' =
          [k \in 1 .. batch_size |->
              [j \in DOMAIN batch_actionseqs[k] |->
                  DenotationValue(ProgramType(batch_actionseqs[k][j]))]]
    /\ answer_as_passage_spans' = [k \in 1 .. batch_size |-> ForwardGold.passage_spans]
    /\ answer_as_question_spans' = [k \in 1 .. batch_size |-> ForwardGold.question_spans]
    /\ answer_as_year_difference' = [k \in 1 .. batch_size |-> ForwardGold.year_difference]
    /\ pc' = "losses"
    /\ UNCHANGED << inputs, callVars, outVars, searchVars, resultVars,
                    denotation_loss_on, loss_i, denotation_loss,
                    batch_denotation_loss >>

\* forward with the decoded programs kept (no gold-program replacement),
\* with and without the denotation loss
InitForward ==
    /\ ForwardEntry
    /\ goldprogs = FALSE
    /\ denotation_loss_on \in BOOLEAN
    /\ LossNotStarted
    /\ InitCallVars
    /\ InitOutVars

NextForward ==
    \/ ForwardUnconstrained
    \/ ForwardFirstStep
    \/ ForwardSupervised
    \/ SearchStep
    \/ SearchReturn
    \/ SupervisedSearchReturn
    \/ UnsupSearchReturn
    \/ ConvertFinalStates
    \/ ExecutePrograms
    \/ SkipDenotationLoss
    \/ DenotationLossInstance
    \/ DenotationLossBatch
    \/ PredictAnswers

SpecForward == InitForward /\ [][NextForward]_vars

\* the decoding part of forward on any batch, gold programs in evaluation
\* batches included
InitModes ==
    /\ ForwardInputs
    /\ goldprogs = FALSE
    /\ InitLossVars
    /\ InitCallVars
    /\ InitOutVars

SpecModes == InitModes /\ [][Next]_vars

\* ------------------------------------------- routines called on their own
\* forward is not running: its variables stay as they are before a call
IdleForward ==
    /\ training = FALSE
    /\ batch_size = 1
    /\ beam_size = 1
    /\ max_decoding_steps = 1
    /\ instance_w_goldprog = <<FALSE>>
    /\ answer_program_start_types = << <<"passage_span">> >>
    /\ gold_action_seqs = <<NoGold>>
    /\ scoreTab = [a \in ActionIds |-> 0]
    /\ goldprogs = FALSE
    /\ InitSearchVars
    /\ InitResultVars
    /\ InitLossVars
    /\ InitOutVars

\* (start, end) rows over two tokens, and the padding row
PaddingRow == <<-1, -1>>

SpanRows == { <<0, 0>>, <<0, 1>>, <<1, 1>>, PaddingRow }

MaxSpans == 3

MaxPad == 2

SeqsUpTo(S, n) == UNION { [1 .. k -> S] : k \in 1 .. n }

SpanDenotations == { SpanA, SpanB, << <<-3, 0>>, <<-1, -2>> >> }

Padding(k) == [j \in 1 .. k |-> PaddingRow]

HasValidSpan(spans) == \E k \in DOMAIN spans : spans[k][1] # -1

HasPaddedSpan(spans) == \E k \in DOMAIN spans : spans[k][1] = -1

InitSpanLogProb ==
    /\ IdleForward
    /\ pc = "call"
    /\ call \in [answer_as_spans : SeqsUpTo(SpanRows, MaxSpans),
                  span_log_probs : SpanDenotations]
    /\ ret = <<>>

\* _get_span_answer_log_prob(answer_as_spans, span_log_probs)
SpanAnswerLogProbCall ==
    /\ pc = "call"
    /\ ret' = get_span_answer_log_prob(call.answer_as_spans, call.span_log_probs)
    /\ pc' = "returned"
    /\ UNCHANGED << inputs, searchVars, resultVars, lossVars, call, outVars >>

SpecSpanLogProb == InitSpanLogProb /\ [][SpanAnswerLogProbCall]_vars

\* ------------------------------------------------ the action-to-index map
\* productions a language may list: the three start productions and two
\* others, in any order, each once
StartProductions ==
    { "@start@ -> PassageSpanAnswer", "@start@ -> YearDifference",
      "@start@ -> QuestionSpanAnswer" }

OtherProductions ==
    { "PassageSpanAnswer -> find_passageSpanAnswer",
      "PassageAttention -> find_PassageAttention" }

Orderings(S) ==
    {p \in [1 .. Cardinality(S) -> S] :
        \A i, j \in 1 .. Cardinality(S) : p[i] = p[j] => i = j}

ProductionLists ==
    UNION {Orderings(StartProductions \cup O) : O \in SUBSET OtherProductions}

\* answer_program_start_types of an instance, as the reader passes them
AnswerTypeLists ==
    { <<"passage_span">>, <<"question_span">>, <<"year_difference">>,
      <<"passage_span", "question_span">>, <<"passage_number", "year_difference">>,
      <<"passage_number">> }

\* forward up to the maps: the languages of the batch list the same
\* productions, the first one's are read
InitActionMap ==
    /\ IdleForward
    /\ pc = "call"
    /\ \E n \in 1 .. MaxBatch :
          call \in [productions : ProductionLists,
                    answer_types : [1 .. n -> AnswerTypeLists]]
    /\ ret = <<>>

\* src 495-496
BuildActionMaps ==
    /\ pc = "call"
    /\ ret' = [action2idx_map |-> enumerate_productions(call.productions),
               idx2action_map |-> list_by_index(call.productions),
               start_action_ids |-> <<>>]
    /\ pc' = "built"
    /\ UNCHANGED << inputs, searchVars, resultVars, lossVars, call, outVars >>

\* the one use of action2idx_map: the start ids handed to the search
ReadStartActionIds ==
    /\ pc = "built"
    /\ ret' = [ret EXCEPT !.start_action_ids =
                    get_valid_start_actionids(call.answer_types, ret.action2idx_map)]
    /\ pc' = "returned"
    /\ UNCHANGED << inputs, searchVars, resultVars, lossVars, call, outVars >>

NextActionMap ==
    \/ BuildActionMaps
    \/ ReadStartActionIds

SpecActionMap == InitActionMap /\ [][NextActionMap]_vars

\* ------------------------------------------- logical forms, there and back
\* nesting of comparisons in the logical forms drawn
MaxDepth == 2

\* comparison predicates used in the logical forms drawn
DrawnComparisons == {"compare_date_lesser_than", "compare_num_greater_than"}

\* the logical forms of type PassageAttention with comparisons nested at
\* most depth deep, written the way the gold logical forms are: one blank
\* between the elements of a list, none inside the parentheses
RECURSIVE AttentionForms(_)
AttentionForms(depth) ==
    IF depth = 0 THEN {"find_PassageAttention"}
    ELSE {"find_PassageAttention"}
            \cup {"(" \o f \o " " \o a \o " " \o b \o ")" :
                      f \in DrawnComparisons,
                      a \in AttentionForms(depth - 1),
                      b \in AttentionForms(depth - 1)}

\* the logical forms of the two start types
LogicalForms ==
    {"(" \o f \o " " \o a \o ")" :
        f \in {"find_passageSpanAnswer", "find_questionSpanAnswer"},
        a \in AttentionForms(MaxDepth)}

\* questions for the gold logical forms: a first-token, a later-token, both,
\* a more-token, a fewer-token, both, none
GoldQuestions ==
    { <<"which", "happened", "first">>, <<"which", "came", "later">>,
      <<"first", "or", "last">>, <<"earlier", "or", "second">>,
      <<"which", "has", "more">>, <<"which", "has", "fewer">>,
      <<"more", "or", "less">>, <<"how", "many">> }

InitRoundTrip ==
    /\ IdleForward
    /\ pc = "call"
    /\ call \in [qtype : {None}, question_tokens : {<<>>}, lf : LogicalForms]
                \cup [qtype : {DATECOMP_QTYPE, NUMCOMP_QTYPE},
                      question_tokens : GoldQuestions, lf : {""}]
    /\ ret = <<>>

\* a logical form to its action sequence and that back to a logical form
RoundTrip(lf) ==
    [logical_form |-> lf,
     action_sequence |-> logical_form_to_action_sequence(lf),
     back |-> action_sequence_to_logical_form(logical_form_to_action_sequence(lf))]

\* language.action_sequence_to_logical_form(
\*     language.logical_form_to_action_sequence(L))
RoundTripCall ==
    /\ pc = "call"
    /\ call.qtype = None
    /\ ret' = << RoundTrip(call.lf) >>
    /\ pc' = "returned"
    /\ UNCHANGED << inputs, searchVars, resultVars, lossVars, call, outVars >>

\* the same on each gold logical form of a question
GoldRoundTripCall ==
    /\ pc = "call"
    /\ call.qtype # None
    /\ LET gold_logical_forms ==
               IF call.qtype = DATECOMP_QTYPE
               THEN getGoldLF_datecomparison(call.question_tokens, all_possible_productions)
               ELSE getGoldLF_numcomparison(call.question_tokens, all_possible_productions)
       IN  ret' = [k \in DOMAIN gold_logical_forms |-> RoundTrip(gold_logical_forms[k])]
    /\ pc' = "returned"
    /\ UNCHANGED << inputs, searchVars, resultVars, lossVars, call, outVars >>

NextRoundTrip ==
    \/ RoundTripCall
    \/ GoldRoundTripCall

SpecRoundTrip == InitRoundTrip /\ [][NextRoundTrip]_vars

\* --------------------------------------------- the side-argument routers
\* the action strings the routers and the attention loss look for
START_PSA == "@start@ -> PassageSpanAnswer"

FIND_PSA == "PassageSpanAnswer -> find_passageSpanAnswer"

FIND_PSA_ATTN == "PassageSpanAnswer -> [find_passageSpanAnswer, PassageAttention]"

FIND_PATTN == "PassageAttention -> find_PassageAttention"

COMPARE_ATTN ==
    "PassageAttention -> [<PassageAttention,PassageAttention:PassageAttention_answer>, PassageAttention, PassageAttention]"

DATE_GT == "<PassageAttention,PassageAttention:PassageAttention_answer> -> compare_date_greater_than"

DATE_LT == "<PassageAttention,PassageAttention:PassageAttention_answer> -> compare_date_lesser_than"

NUM_GT == "<PassageAttention,PassageAttention:PassageAttention_answer> -> compare_num_greater_than"

NUM_LT == "<PassageAttention,PassageAttention:PassageAttention_answer> -> compare_num_lesser_than"

\* decoded programs as the routers get them: one comparison, a comparison
\* inside a comparison, a bare span answer, one attention
RouterPrograms ==
    << << START_PSA, FIND_PSA_ATTN, COMPARE_ATTN, DATE_GT, FIND_PATTN, FIND_PATTN >>,
       << START_PSA, FIND_PSA_ATTN, COMPARE_ATTN, DATE_LT, COMPARE_ATTN, DATE_GT,
          FIND_PATTN, FIND_PATTN, FIND_PATTN >>,
       << START_PSA, FIND_PSA_ATTN, COMPARE_ATTN, NUM_LT, FIND_PATTN, FIND_PATTN >>,
       << START_PSA, FIND_PSA_ATTN, COMPARE_ATTN, NUM_GT, COMPARE_ATTN, NUM_GT,
          FIND_PATTN, FIND_PATTN, FIND_PATTN >>,
       << START_PSA, FIND_PSA >>,
       << START_PSA, FIND_PSA_ATTN, FIND_PATTN >> >>

\* the programs of one instance, by their place in RouterPrograms
RouterInstancePrograms ==
    { <<>>, <<1>>, <<2>>, <<3>>, <<4>>, <<5>>, <<6>>, <<1, 2>>, <<3, 5>>, <<4, 6>>, <<5, 5>> }

\* the side-args the search leaves with a program: per action a dict with
\* the question attention it predicted there
DecodedSideArgs(program) ==
    [j \in DOMAIN program |-> [question_attention |-> <<j, 1>>]]

\* sidearg_dict[key] = value
DictSet(d, key, value) ==
    [k \in DOMAIN d \cup {key} |-> IF k = key THEN value ELSE d[k]]

\* the number of actions of relevant_actions among the first j of a program
RECURSIVE Occurrences(_, _, _)
Occurrences(program, j, relevant_actions) ==
    IF j = 0 THEN 0
    ELSE Occurrences(program, j - 1, relevant_actions)
         + (IF program[j] \in relevant_actions THEN 1 ELSE 0)

\* (only the first occurrence in a program gets the value)
SetSideArgs_FirstOccurrenceOnly(actionseqs, sideargs_in, relevant_actions, key, values) ==
    [ins_idx \in DOMAIN sideargs_in |->
        [p \in DOMAIN sideargs_in[ins_idx] |->
            [j \in DOMAIN sideargs_in[ins_idx][p] |->
                LET sidearg_dict == sideargs_in[ins_idx][p][j]
                    program == actionseqs[ins_idx][p]
                IN  IF /\ program[j] \in relevant_actions
                       /\ Occurrences(program, j, relevant_actions) = 1
                    THEN DictSet(sidearg_dict, key, values[ins_idx])
                    ELSE sidearg_dict]]]

\* what the three routers share: every action of relevant_actions in every
\* program of instance ins_idx gets values[ins_idx] under key; zip stops at
\* the shorter of its two lists
SetSideArgs(actionseqs, sideargs_in, relevant_actions, key, values) ==
    [ins_idx \in DOMAIN sideargs_in |->
        [p \in DOMAIN sideargs_in[ins_idx] |->
            [j \in DOMAIN sideargs_in[ins_idx][p] |->
                LET sidearg_dict == sideargs_in[ins_idx][p][j]
                IN  IF /\ ins_idx \in DOMAIN actionseqs
                       /\ p \in DOMAIN actionseqs[ins_idx]
                       /\ j \in DOMAIN actionseqs[ins_idx][p]
                       /\ actionseqs[ins_idx][p][j] \in relevant_actions
                    THEN DictSet(sidearg_dict, key, values[ins_idx])
                    ELSE sidearg_dict]]]

\* get_gold_question_event_date_grounding: `for grounding_1, grounding_2 in`
\* needs two groundings per instance
GroundingError(groundings) ==
    IF \E k \in DOMAIN groundings : Len(groundings[k]) # 2 THEN "ValueError" ELSE None

datecompare_eventdategr_to_sideargs(actionseqs, sideargs_in, datecomp_ques_event_date_groundings) ==
    IF GroundingError(datecomp_ques_event_date_groundings) # None
    THEN [err |-> GroundingError(datecomp_ques_event_date_groundings),
          sideargs |-> sideargs_in]
    ELSE [err |-> None,
          sideargs |-> SetSideArgs(actionseqs, sideargs_in,
                                   {DATE_GT, DATE_LT}, "event_date_groundings",
                                   datecomp_ques_event_date_groundings)]

\* (every instance given the groundings of the first)
numcompare_eventnumgr_to_sideargs_FirstGrounding(actionseqs, sideargs_in, numcomp_qspan_num_groundings) ==
    IF GroundingError(numcomp_qspan_num_groundings) # None
    THEN [err |-> GroundingError(numcomp_qspan_num_groundings),
          sideargs |-> sideargs_in]
    ELSE [err |-> None,
          sideargs |-> SetSideArgs(actionseqs, sideargs_in,
                                   {NUM_GT, NUM_LT}, "event_num_groundings",
                                   [k \in DOMAIN numcomp_qspan_num_groundings |->
                                        numcomp_qspan_num_groundings[1]])]

numcompare_eventnumgr_to_sideargs(actionseqs, sideargs_in, numcomp_qspan_num_groundings) ==
    IF GroundingError(numcomp_qspan_num_groundings) # None
    THEN [err |-> GroundingError(numcomp_qspan_num_groundings),
          sideargs |-> sideargs_in]
    ELSE [err |-> None,
          sideargs |-> SetSideArgs(actionseqs, sideargs_in,
                                   {NUM_GT, NUM_LT}, "event_num_groundings",
                                   numcomp_qspan_num_groundings)]

passage_ans_attn_to_sideargs(actionseqs, sideargs_in, batch_gold_attentions) ==
    [err |-> None,
     sideargs |-> SetSideArgs(actionseqs, sideargs_in,
                              {FIND_PSA}, "passage_attention", batch_gold_attentions)]

\* per instance the groundings of the two events of its question, each a
\* vector over three dates (numbers)
GroundingPairs ==
    { << <<1, 0, 0>>, <<0, 1, 0>> >>, << <<0, 0, 1>>, <<1, 0, 0>> >> }

\* the routers called on the decoded programs of a batch
InitRouters ==
    /\ IdleForward
    /\ pc = "call"
    /\ \E n \in 1 .. MaxBatch :
          \E progs \in [1 .. n -> RouterInstancePrograms],
             golds \in [1 .. n -> GroundingPairs] :
              call = [actionseqs |->
                          [k \in 1 .. n |->
                              [p \in DOMAIN progs[k] |-> RouterPrograms[progs[k][p]]]],
                      sideargs |->
                          [k \in 1 .. n |->
                              [p \in DOMAIN progs[k] |->
                                  DecodedSideArgs(RouterPrograms[progs[k][p]])]],
                      groundings |-> golds,
                      attentions |-> [k \in 1 .. n |-> golds[k][1]]]
    /\ ret = <<>>

RouterReturns(router, out) ==
    /\ pc = "call"
    /\ ret' = [router |-> router, err |-> out.err, sideargs |-> out.sideargs]
    /\ pc' = "returned"
    /\ UNCHANGED << inputs, searchVars, resultVars, lossVars, call, outVars >>

DateCompareRouterCall ==
    RouterReturns("datecompare",
                  datecompare_eventdategr_to_sideargs(call.actionseqs, call.sideargs,
                                                      call.groundings))

NumCompareRouterCall ==
    RouterReturns("numcompare",
                  numcompare_eventnumgr_to_sideargs(call.actionseqs, call.sideargs,
                                                    call.groundings))

PassageAttnRouterCall ==
    RouterReturns("passage_ans_attn",
                  passage_ans_attn_to_sideargs(call.actionseqs, call.sideargs,
                                               call.attentions))

NextRouters ==
    \/ DateCompareRouterCall
    \/ NumCompareRouterCall
    \/ PassageAttnRouterCall

SpecRouters == InitRouters /\ [][NextRouters]_vars

\* ------------------------------------------- the question-attention loss
\* the actions whose question attention is supervised, by question type
qtype2relevant_actions_list(qtype) ==
    IF qtype \in {DATECOMP_QTYPE, NUMCOMP_QTYPE}
    THEN << FIND_PATTN, FIND_PATTN >>
    ELSE <<>>

Min(a, b) == IF a < b THEN a ELSE b

\* torch.sum(question_attention * gold_qattn)
DotProduct(u, v) == SumSeq([t \in DOMAIN u |-> u[t] * v[t]])

\* (every occurrence read against row 0, the row fetched before the loop)
ProgramAttentionTerms_FirstRow(ins_idx, p, program, side_args, relevant_actions, instance_qattn_supervision) ==
    LET occ == SelectSeq([j \in 1 .. Min(Len(program), Len(side_args)) |-> j],
                         LAMBDA j : program[j] = relevant_actions[1])
        fails == Len(instance_qattn_supervision) = 0
    IN  [err |-> IF fails THEN "IndexError" ELSE None,
         terms |-> [n \in 1 .. (IF fails THEN 0 ELSE Min(Len(occ), Len(relevant_actions))) |->
                      [ins_idx |-> ins_idx, program |-> p, action |-> occ[n],
                       row |-> 1,
                       l |-> DotProduct(side_args[occ[n]].question_attention,
                                        instance_qattn_supervision[1])]]]

\* one program of an instance: the occurrences of the relevant action in
\* order, the Nth read against row N of the instance's supervision.  Row 0 is
\* fetched before the loop and row N right after the Nth occurrence unless
\* it was the last relevant one; fetching a row the tensor does not have
\* raises IndexError
ProgramAttentionTerms(ins_idx, p, program, side_args, relevant_actions, instance_qattn_supervision) ==
    LET zipped == Min(Len(program), Len(side_args))
        occ == SelectSeq([j \in 1 .. zipped |-> j],
                         LAMBDA j : program[j] = relevant_actions[1])
        num_relevant_actions == Len(relevant_actions)
        rows == Len(instance_qattn_supervision)
        fails == rows = 0 \/ rows <= Min(Len(occ), num_relevant_actions - 1)
        count == IF fails THEN rows ELSE Min(Len(occ), num_relevant_actions)
    IN  [err |-> IF fails THEN "IndexError" ELSE None,
         terms |-> [n \in 1 .. count |->
                      [ins_idx |-> ins_idx, program |-> p, action |-> occ[n],
                       row |-> n,
                       l |-> DotProduct(side_args[occ[n]].question_attention,
                                        instance_qattn_supervision[n])]]]

\* the programs in the order the loops visit them, up to the first that
\* raises
RECURSIVE UntilFirstError(_)
UntilFirstError(results) ==
    IF results = <<>> THEN [err |-> None, terms |-> <<>>]
    ELSE IF Head(results).err # None THEN Head(results)
    ELSE LET rest == UntilFirstError(Tail(results))
         IN  [err |-> rest.err, terms |-> Head(results).terms \o rest.terms]

\* _ques_attention_loss: loss is the sum of log(l) over the terms, returned
\* as -(loss / normalizer), or as it is when no term was found.  The value
\* returned is kept as sign * (sum of log(l) over logs_of) / div
ques_attention_loss(actionseqs, sideargs_in, qtypes, strongly_supervised, qattn_supervision) ==
    LET instance_results(ins_idx) ==
            IF ~strongly_supervised[ins_idx] THEN <<>>
            ELSE IF qtype2relevant_actions_list(qtypes[ins_idx]) = <<>> THEN <<>>
            ELSE [p \in 1 .. Min(Len(actionseqs[ins_idx]), Len(sideargs_in[ins_idx])) |->
                     ProgramAttentionTerms(ins_idx, p, actionseqs[ins_idx][p],
                                           sideargs_in[ins_idx][p],
                                           qtype2relevant_actions_list(qtypes[ins_idx]),
                                           qattn_supervision[ins_idx])]
        out == UntilFirstError(Flatten([i \in DOMAIN actionseqs |-> instance_results(i)]))
    IN  [err |-> out.err, terms |-> out.terms, normalizer |-> Len(out.terms),
         loss |-> IF Len(out.terms) = 0
                  THEN [sign |-> 1, logs_of |-> <<>>, div |-> 1]
                  ELSE [sign |-> -1,
                        logs_of |-> [t \in DOMAIN out.terms |-> out.terms[t].l],
                        div |-> Len(out.terms)]]

\* R, the number of supervision rows of the batch tensor
MaxRows == 2

\* the supervision rows of an instance over two question tokens: one row per
\* relevant action, or one real row and zero padding
SupervisionRows ==
    { [r \in 1 .. MaxRows |-> IF r % 2 = 1 THEN <<1, 0>> ELSE <<0, 1>>],
      [r \in 1 .. MaxRows |-> IF r = 1 THEN <<0, 1>> ELSE <<0, 0>>] }

QAttnInstancePrograms == { <<>>, <<1>>, <<6>>, <<2, 6>>, <<5, 3>> }

QAttnInstances ==
    [progs : QAttnInstancePrograms, qtype : {DATECOMP_QTYPE, NUMCOMP_QTYPE, "count"},
     strongly_supervised : BOOLEAN, rows : SupervisionRows]

InitQAttnLoss ==
    /\ IdleForward
    /\ pc = "call"
    /\ \E n \in 1 .. MaxBatch, R \in 0 .. MaxRows :
          \E ins \in [1 .. n -> QAttnInstances] :
              call = [actionseqs |->
                          [k \in 1 .. n |->
                              [p \in DOMAIN ins[k].progs |->
                                  RouterPrograms[ins[k].progs[p]]]],
                      sideargs |->
                          [k \in 1 .. n |->
                              [p \in DOMAIN ins[k].progs |->
                                  DecodedSideArgs(RouterPrograms[ins[k].progs[p]])]],
                      qtypes |-> [k \in 1 .. n |-> ins[k].qtype],
                      strongly_supervised |->
                          [k \in 1 .. n |-> ins[k].strongly_supervised],
                      qattn_supervision |->
                          [k \in 1 .. n |-> Take(ins[k].rows, R)]]
    /\ ret = <<>>

QuesAttentionLossCall ==
    /\ pc = "call"
    /\ ret' = ques_attention_loss(call.actionseqs, call.sideargs, call.qtypes,
                                  call.strongly_supervised, call.qattn_supervision)
    /\ pc' = "returned"
    /\ UNCHANGED << inputs, searchVars, resultVars, lossVars, call, outVars >>

SpecQAttnLoss == InitQAttnLoss /\ [][QuesAttentionLossCall]_vars

\* ================================================================ claims
Returned == pc \in {"decoded", "done"}

\* the gold sequences of the original instance behind search-local index b
OwnGold(b) == gold_action_seqs[search_instances[b + 1] + 1]

Histories(sts) == {sts[k].action_history : k \in DOMAIN sts}

\* C1: unconstrained beam search with beam_size = B never holds more than B
\* finished states for one instance, during the search or in its result.
C1_BeamBound ==
    mode = "unconstrained" =>
        /\ \A b \in DOMAIN finished : Len(finished[b]) <= beam_size
        /\ Returned =>
              \A i \in DOMAIN best_final_states :
                  Len(best_final_states[i]) <= beam_size

\* the cap was reached by an instance whose beam found three complete
\* programs within the step budget
C1_Witness ==
    /\ mode = "unconstrained"
    /\ pc = "done"
    /\ beam_size = 2
    /\ step_num = 5
    /\ \E i \in DOMAIN best_final_states :
          /\ Len(best_final_states[i]) = beam_size
          /\ \E k \in DOMAIN states :
                /\ states[k].batch_index = i
                /\ Len(states[k].action_history) = 5

\* C2: the finished states returned for an instance are in non-increasing
\* score order, equal scores in the order of their discovery; the first one
\* is a highest-scoring one.
C2_ScoreOrder ==
    Returned =>
        \A i \in DOMAIN best_final_states :
            LET r == best_final_states[i]
            IN  \A j, k \in DOMAIN r :
                    j < k => \/ r[j].score > r[k].score
                             \/ r[j].score = r[k].score /\ r[j].disc < r[k].disc

\* a program found later is returned first because it scores higher
C2_Witness ==
    /\ pc = "done"
    /\ \E i \in DOMAIN best_final_states :
          LET r == best_final_states[i]
          IN  /\ Len(r) = 2
              /\ r[1].score > r[2].score
              /\ r[1].disc > r[2].disc

\* C3 (as claimed): the fully-constrained search finishes, after exactly
\* Len(S) steps, a state with history S for every allowed sequence S of an
\* instance; exactly one finished state when S is the only one.
C3_EveryAllowedSequenceFinishes ==
    (mode = "constrained" /\ pc = "sup_search") =>
        \A b \in 0 .. Len(search_instances) - 1 :
            \A S \in AllowedSeqSet(OwnGold(b)) :
                Len(S) <= step_num =>
                    /\ S \in Histories(DictGet(finished, b))
                    /\ Cardinality(AllowedSeqSet(OwnGold(b))) = 1 =>
                          Len(finished[b]) = 1

\* C3 (amended): the same for an instance that has no more allowed sequences
\* than beam_size.
C3_AllowedSequencesWithinBeamFinish ==
    (mode = "constrained" /\ pc = "sup_search") =>
        \A b \in 0 .. Len(search_instances) - 1 :
            Cardinality(AllowedSeqSet(OwnGold(b))) <= beam_size =>
                \A S \in AllowedSeqSet(OwnGold(b)) :
                    Len(S) <= step_num =>
                        /\ S \in Histories(DictGet(finished, b))
                        /\ Cardinality(AllowedSeqSet(OwnGold(b))) = 1 =>
                              Len(finished[b]) = 1

\* two allowed sequences of different length were both finished
C3_Witness ==
    /\ mode = "constrained"
    /\ pc = "sup_search"
    /\ states = <<>>
    /\ \E b \in DOMAIN finished :
          /\ Cardinality(AllowedSeqSet(OwnGold(b))) = 2
          /\ Histories(finished[b]) = AllowedSeqSet(OwnGold(b))
          /\ \E j, k \in DOMAIN finished[b] :
                Len(finished[b][j].action_history) < Len(finished[b][k].action_history)

\* C4: in the fully-constrained search every active state's history is a
\* prefix of an allowed sequence of its instance (cut to the masked length),
\* every finished state's history is one full allowed sequence, and no
\* padded position is ever taken as an action.
C4_WithinAllowedSequences ==
    mode = "constrained" =>
        /\ \A k \in DOMAIN states :
              /\ \E S \in AllowedSeqSet(OwnGold(states[k].batch_index)) :
                    IsPrefix(states[k].action_history, S)
              /\ Range(states[k].action_history) \subseteq ActionIds
        /\ \A b \in DOMAIN finished :
              \A k \in DOMAIN finished[b] :
                  /\ finished[b][k].action_history \in AllowedSeqSet(OwnGold(b))
                  /\ Range(finished[b][k].action_history) \subseteq ActionIds

\* an active state on the prefix shared by two allowed sequences, beside a
\* finished state whose sequence is shorter than the padded length
C4_Witness ==
    /\ mode = "constrained"
    /\ pc = "sup_search"
    /\ \E k \in DOMAIN states :
          LET b == states[k].batch_index
          IN  /\ Len(states[k].action_history) = 4
              /\ b \in DOMAIN finished
              /\ \E j \in DOMAIN finished[b] :
                    /\ Len(finished[b][j].action_history) = 3
                    /\ IsPrefix(SubSeq(finished[b][j].action_history, 1, 2),
                                states[k].action_history)

\* the start actions instance i (original batch index) may begin with
StartSetOf(i) ==
    get_valid_start_actionids(<< answer_program_start_types[i + 1] >>,
                              action2idx_map)[1]

\* number of grammar-valid actions over the active states
RECURSIVE ValidActionCount(_)
ValidActionCount(sts) ==
    IF sts = <<>> THEN 0
    ELSE Cardinality(ValidActions(Head(sts).grammar_state))
            + ValidActionCount(Tail(sts))

C5_FirstActionAllowed ==
    mode = "firststep" =>
        /\ \A b \in DOMAIN finished :
              \A k \in DOMAIN finished[b] :
                  finished[b][k].action_history[1]
                      \in StartSetOf(search_instances[b + 1])
        /\ Returned =>
              \A i \in DOMAIN best_final_states :
                  instance_w_goldprog[i + 1] = FALSE =>
                      \A k \in DOMAIN best_final_states[i] :
                          best_final_states[i][k].action_history[1] \in StartSetOf(i)

C5_LaterStepsUnrestricted ==
    (mode = "firststep" /\ step_num >= 1 /\ step_num' = step_num + 1) =>
        discovered' - discovered = ValidActionCount(states)

\* C5: the first action of every program the first-step-constrained search
\* finishes or returns for an instance is in that instance's allowed start
\* set (for a set {a}: it is a); a step after the first expands every active
\* state by all its grammar-valid actions, whatever the set.
C5_FirstStepFilter ==
    []C5_FirstActionAllowed /\ [][C5_LaterStepsUnrestricted]_vars

\* an instance allowed only '@start@ -> QuestionSpanAnswer', which its scorer
\* likes less than the other start action, got back a five-action program
C5_Witness ==
    /\ pc = "done"
    /\ mode = "firststep"
    /\ \E i \in DOMAIN best_final_states :
          /\ instance_w_goldprog[i + 1] = FALSE
          /\ StartSetOf(i) = {1}
          /\ ScoreOf(i, 0) > ScoreOf(i, 1)
          /\ \E k \in DOMAIN best_final_states[i] :
                best_final_states[i][k].action_history = <<1, 3, 5, 4, 4>>

C6_Budgeted == mode \in {"unconstrained", "firststep"}

C6_StepBound == C6_Budgeted => step_num <= max_decoding_steps

C6_StepGuard ==
    (C6_Budgeted /\ step_num' = step_num + 1) =>
        /\ states # <<>>
        /\ step_num < max_decoding_steps

C6_InSearch == C6_Budgeted /\ pc \in {"search", "unsup_search"}

C6_SearchOver == pc \in {"decoded", "error"}

\* C6: the unconstrained and the first-step-constrained search never take
\* more than max_decoding_steps expansion steps, take a step only while some
\* state is active and the budget is not used up, and always return.
C6_SearchTerminates ==
    /\ []C6_StepBound
    /\ [][C6_StepGuard]_vars
    /\ (C6_InSearch ~> C6_SearchOver)

\* a search cut off by the step budget with states still active, after one
\* of another instance's programs had completed
C6_Witness ==
    /\ C6_Budgeted
    /\ pc = "decoded"
    /\ step_num = max_decoding_steps
    /\ max_decoding_steps >= 3
    /\ states # <<>>
    /\ finished # EmptyDict

AllComplete(result) ==
    \A i \in DOMAIN result :
        \A k \in DOMAIN result[i] : is_complete(result[i][k].grammar_state)

\* the states of instance b still active when the search stopped
LeftActive(b) == SelectSeq(states, LAMBDA x : x.batch_index = b)

\* C7: every search forward runs has keep_final_unfinished_states unset, and
\* a search with the flag unset returns complete derivations only; with the
\* flag set the result of an instance is its finished states followed by
\* its still incomplete states, as they were in the beam.
C7_UnfinishedStates ==
    /\ pc \in {"search", "sup_search", "unsup_search"} => ~keep_unfinished
    /\ Returned => AllComplete(best_final_states)
    /\ pc = "lib_returned" =>
          IF keep_unfinished
          THEN /\ \A k \in DOMAIN states : ~is_complete(states[k].grammar_state)
               /\ \A b \in 0 .. batch_size - 1 :
                     DictGet(best_final_states, b)
                         = DictGet(finished, b) \o LeftActive(b)
          ELSE /\ AllComplete(best_final_states)
               /\ \A b \in 0 .. batch_size - 1 :
                     DictGet(best_final_states, b) = DictGet(finished, b)

\* the step budget ran out on a search with the flag set: an instance gets
\* back a complete program and, after it, a derivation that is still open
C7_Witness ==
    /\ pc = "lib_returned"
    /\ keep_unfinished
    /\ step_num = max_decoding_steps
    /\ \E b \in DOMAIN best_final_states :
          LET r == best_final_states[b]
          IN  /\ Len(r) >= 2
              /\ is_complete(r[1].grammar_state)
              /\ ~is_complete(r[Len(r)].grammar_state)
              /\ Len(r[Len(r)].action_history) = max_decoding_steps

\* the k-th side-arg dict is the one made for the k-th action
Paired(action_ids, side_args) ==
    /\ Len(action_ids) = Len(side_args)
    /\ \A k \in DOMAIN action_ids : side_args[k] = SideArg(action_ids[k])

AllPaired(sts) ==
    \A k \in DOMAIN sts : Paired(sts[k].action_history, sts[k].side_args)

\* the programs handed to the routers are the ones the search finished
FinishedProgramsRouted == pc = "done" /\ ~goldprogs

C8_GoldProgramAgainstDecodedSideArgs ==
    /\ pc = "done"
    /\ goldprogs
    /\ \E i \in 1 .. batch_size :
          /\ batch_actionseq_sideargs[i] # <<>>
          /\ Len(batch_actionseqs[i][1]) # Len(batch_actionseq_sideargs[i][1])

\* the raw score of a program of instance `orig`: the sum of its actions'
\* log-probabilities
HistoryScore(orig, hist) ==
    SumSeq([k \in DOMAIN hist |-> ScoreOf(orig, hist[k])])

\* for the finished states of supervised instance b (search-local index):
\* sum of 2^score = SumPow(b) / 2^Depth(b)
Depth(b) ==
    LET sts == supervised_final_states[b]
        ds == {0 - HistoryScore(supervised_instances[b + 1], sts[k].action_history) :
                  k \in DOMAIN sts}
    IN  CHOOSE d \in ds : \A x \in ds : x <= d

SumPow(b) ==
    LET sts == supervised_final_states[b]
    IN  SumSeq([k \in DOMAIN sts |->
                   Pow2(Depth(b) + HistoryScore(supervised_instances[b + 1],
                                                sts[k].action_history))])

RECURSIVE DepthOver(_)
DepthOver(keys) ==
    IF keys = {} THEN 0
    ELSE LET b == CHOOSE x \in keys : TRUE
         IN  Depth(b) + DepthOver(keys \ {b})

RECURSIVE SumPowOver(_)
SumPowOver(keys) ==
    IF keys = {} THEN 1
    ELSE LET b == CHOOSE x \in keys : TRUE
         IN  SumPow(b) * SumPowOver(keys \ {b})

SupervisedWithFinished ==
    {b \in 0 .. Len(supervised_instances) - 1 :
        b \in DOMAIN supervised_final_states /\ supervised_final_states[b] # <<>>}

MMLComputed ==
    /\ training
    /\ \E k \in 1 .. batch_size : instance_w_goldprog[k]
    /\ pc \notin {"forward", "sup_search"}

\* C10: in a training batch with a gold-program instance, once the
\* constrained search is over, mml_loss is minus the sum, over the supervised
\* instances, of the logsumexp of the raw scores of the instance's finished
\* (allowed) programs, divided by the number of supervised instances that have
\* finished states; that number is not 0.
C10_MMLLoss ==
    /\ error # "ZeroDivisionError"
    /\ MMLComputed =>
          /\ mml_loss.div = Cardinality(SupervisedWithFinished)
          /\ mml_loss.div > 0
          /\ mml_loss.neglog.n * Pow2(DepthOver(SupervisedWithFinished))
                = SumPowOver(SupervisedWithFinished) * Pow2(mml_loss.neglog.e)

\* one supervised instance with two allowed programs of different score
\* beside an unsupervised one: the loss is divided by 1, not by the batch size
C10_Witness ==
    /\ MMLComputed
    /\ pc = "done"
    /\ batch_size = 2
    /\ mml_loss.div = 1
    /\ \E b \in DOMAIN supervised_final_states :
          /\ Len(supervised_final_states[b]) = 2
          /\ supervised_final_states[b][1].score > supervised_final_states[b][2].score

\* program j of instance i: log2 of (its probability times the probability
\* that its denotation is a gold answer of its type), as [n, e, m]
JointTerm(i, j) ==
    LET t == batch_denotation_types[i][j]
        v == batch_denotations[i][j]
        ll == IF t = "PassageSpanAnswer"
              THEN get_span_answer_log_prob(answer_as_passage_spans[i], v)
              ELSE IF t = "QuestionSpanAnswer"
              THEN get_span_answer_log_prob(answer_as_question_spans[i], v)
              ELSE year_difference_log_prob(v, answer_as_year_difference[i])
    IN  [n |-> ll.n, e |-> ll.e - batch_actionseq_scores[i][j], m |-> ll.m]

Progs(i) == DOMAIN batch_denotations[i]

\* the terms of instance i that do not vanish beside its largest one
MinM(i) ==
    CHOOSE m \in {JointTerm(i, j).m : j \in Progs(i)} :
        \A j \in Progs(i) : m <= JointTerm(i, j).m

TopProgs(i) == {j \in Progs(i) : JointTerm(i, j).m = MinM(i)}

TopE(i) ==
    CHOOSE e \in {JointTerm(i, j).e : j \in TopProgs(i)} :
        \A j \in TopProgs(i) : JointTerm(i, j).e <= e

\* sum over the programs of instance i = Num(i) / 2^TopE(i)
RECURSIVE NumOver(_, _)
NumOver(i, js) ==
    IF js = {} THEN 0
    ELSE LET j == CHOOSE x \in js : TRUE
         IN  JointTerm(i, j).n * Pow2(TopE(i) - JointTerm(i, j).e)
                + NumOver(i, js \ {j})

Num(i) == NumOver(i, TopProgs(i))

RECURSIVE ProdNum(_)
ProdNum(k) == IF k = 0 THEN 1 ELSE Num(k) * ProdNum(k - 1)

RECURSIVE SumTopE(_)
SumTopE(k) == IF k = 0 THEN 0 ELSE TopE(k) + SumTopE(k - 1)

RECURSIVE SumMinM(_)
SumMinM(k) == IF k = 0 THEN 0 ELSE MinM(k) + SumMinM(k - 1)

\* lv is the sum of the first k instances' log marginal likelihoods
IsMarginalSum(lv, k) ==
    /\ lv.m = SumMinM(k)
    /\ lv.n * Pow2(SumTopE(k)) = ProdNum(k) * Pow2(lv.e)

\* C9: the loss loop adds, per instance, minus the logsumexp over exactly
\* that instance's programs of (program log-probability + log-likelihood of
\* the program's denotation against that instance's gold answer of the
\* program's return type); the batch loss is that sum divided by batch_size.
C9_DenotationLoss ==
    denotation_loss_on =>
        /\ pc = "losses" => IsMarginalSum(denotation_loss, loss_i)
        /\ pc = "loss_done" =>
              /\ batch_denotation_loss.div = batch_size
              /\ IsMarginalSum(batch_denotation_loss.neglog, batch_size)

\* a batch of two instances with different gold answers, the first with a
\* passage-span and a question-span program, the second with a
\* question-span and a year-difference program
C9_Witness ==
    /\ pc = "loss_done"
    /\ denotation_loss_on
    /\ batch_size = 2
    /\ batch_denotation_types[1] = <<"PassageSpanAnswer", "QuestionSpanAnswer">>
    /\ batch_denotation_types[2] = <<"QuestionSpanAnswer", "YearDifference">>
    /\ answer_as_question_spans[1] # answer_as_question_spans[2]
    /\ batch_denotation_loss.neglog.n > 1

\* C11: on gold spans that mix valid rows with -1 padded rows,
\* _get_span_answer_log_prob returns the same value when further -1 rows are
\* appended, and the padded rows add no probability mass: the value is the
\* one computed from the valid rows alone.
ValidSpansOf(spans) == SelectSeq(spans, LAMBDA r : r[1] # -1)

C11_PaddingInvariance ==
    (pc = "returned" /\ HasValidSpan(call.answer_as_spans)) =>
        /\ \A k \in 1 .. MaxPad :
              get_span_answer_log_prob(call.answer_as_spans \o Padding(k),
                                       call.span_log_probs) = ret
        /\ ret = get_span_answer_log_prob(ValidSpansOf(call.answer_as_spans),
                                          call.span_log_probs)

C11_Witness ==
    /\ pc = "returned"
    /\ call.answer_as_spans = << <<0, 1>>, PaddingRow, <<1, 1>> >>
    /\ call.span_log_probs = SpanB
    /\ ret = [n |-> 5, e |-> 2, m |-> 0]

\* forward has raised inside the loop that builds the predicted answers (the
\* loss part before it is over or switched off)
RaisedInAnswers ==
    /\ pc = "error"
    /\ error \in {"IndexError", "NotImplementedError"}
    /\ ~denotation_loss_on \/ loss_i = batch_size

\* C12: in evaluation, whatever the search returned, building the predicted
\* answers raises no exception and yields exactly batch_size answers, the
\* answer of each instance being that of its first (best-scoring) program.
C12_OneAnswerPerInstance ==
    ~training =>
        /\ ~RaisedInAnswers
        /\ pc = "answered" =>
              /\ Len(predicted_answer) = batch_size
              /\ \A i \in 1 .. batch_size :
                    predicted_answer[i] = PredictedAnswerOf(i, 1)

\* the exceptions forward raises only on an instance without finished state
StarvationErrors == {"KeyError", "ZeroDivisionError", "RuntimeError", "IndexError"}

\* C13: an instance whose search finished no program does not make forward
\* raise: neither the merge of the final states, nor the MML loss, nor the
\* denotation loss, nor the predicted answers raise on its account.
C13_StarvedInstanceTolerated ==
    pc = "error" => error \notin StarvationErrors

\* what a router looks for, the key it sets and the gold value it has for
\* instance ins_idx
RelevantActions(router) ==
    CASE router = "datecompare" -> {DATE_GT, DATE_LT}
      [] router = "numcompare" -> {NUM_GT, NUM_LT}
      [] OTHER -> {FIND_PSA}

RouterKey(router) ==
    CASE router = "datecompare" -> "event_date_groundings"
      [] router = "numcompare" -> "event_num_groundings"
      [] OTHER -> "passage_attention"

RouterGold(router, ins_idx) ==
    IF router = "passage_ans_attn" THEN call.attentions[ins_idx]
    ELSE call.groundings[ins_idx]

\* the places (instance, program, action) of the routed batch
RouterPlaces ==
    { x \in (DOMAIN call.actionseqs) \X (1 .. 2) \X (1 .. 9) :
        /\ x[2] \in DOMAIN call.actionseqs[x[1]]
        /\ x[3] \in DOMAIN call.actionseqs[x[1]][x[2]] }

FewerGoldThanOccurrences ==
    { x \in (DOMAIN call.actionseqs) \X (1 .. 2) :
        /\ x[2] \in DOMAIN call.actionseqs[x[1]]
        /\ call.strongly_supervised[x[1]]
        /\ qtype2relevant_actions_list(call.qtypes[x[1]]) # <<>>
        /\ Len(call.qattn_supervision[x[1]]) >= 1
        /\ Len(call.qattn_supervision[x[1]])
              < Occurrences(call.actionseqs[x[1]][x[2]],
                            Len(call.actionseqs[x[1]][x[2]]), {FIND_PATTN}) }

\* C15: when an instance has fewer gold values than a program has
\* occurrences of find_PassageAttention, no exception is raised: the
\* occurrences that have a gold value are read against it in order and the
\* later ones are passed over.
C15_FewerGoldValuesNoError ==
    (pc = "returned" /\ FewerGoldThanOccurrences # {}) =>
        /\ ret.err = None
        /\ \A x \in FewerGoldThanOccurrences :
              \A n \in DOMAIN call.qattn_supervision[x[1]] :
                  \E k \in DOMAIN ret.terms :
                      /\ ret.terms[k].ins_idx = x[1]
                      /\ ret.terms[k].program = x[2]
                      /\ ret.terms[k].row = n

\* the instances with and without the gold-program flag, in batch order
Flagged == SelectSeq(AllInstances, LAMBDA i : instance_w_goldprog[i + 1])

Unflagged == SelectSeq(AllInstances, LAMBDA i : ~instance_w_goldprog[i + 1])

\* C16: the fully-constrained search runs only in training and on exactly
\* the instances flagged instance_w_goldprog, with their gold sequences; the
\* other instances of a training batch go through the first-step-constrained
\* search with their start-type action ids; outside training the one search
\* is the unconstrained one on the whole batch, with neither constraint.
\* Once decoding is over every instance has been in exactly one search.
C16_SearchModeSelection ==
    /\ \A c \in DOMAIN search_calls :
          LET sc == search_calls[c]
          IN  CASE sc.mode = "constrained" ->
                      /\ training
                      /\ sc.instances = Flagged
                      /\ sc.allowed_sequences =
                            [k \in DOMAIN Flagged |-> gold_action_seqs[Flagged[k] + 1]]
                      /\ sc.firststep_allowed_actions = <<>>
                [] sc.mode = "firststep" ->
                      /\ training
                      /\ sc.instances = Unflagged
                      /\ sc.firststep_allowed_actions =
                            [k \in DOMAIN Unflagged |-> StartSetOf(Unflagged[k])]
                      /\ sc.allowed_sequences = <<>>
                [] OTHER ->
                      /\ ~training
                      /\ sc.mode = "unconstrained"
                      /\ sc.instances = AllInstances
                      /\ sc.firststep_allowed_actions = <<>>
                      /\ sc.allowed_sequences = <<>>
    /\ pc = "decoded" =>
          \A i \in 0 .. batch_size - 1 :
              Cardinality({c \in DOMAIN search_calls :
                              i \in Range(search_calls[c].instances)}) = 1

C16_Witness ==
    /\ pc = "decoded"
    /\ training
    /\ batch_size = 2
    /\ instance_w_goldprog = <<FALSE, TRUE>>
    /\ Len(search_calls) = 2
    /\ search_calls[1].mode = "constrained"
    /\ search_calls[1].instances = <<1>>
    /\ search_calls[2].mode = "firststep"
    /\ search_calls[2].instances = <<0>>

\* evaluation on a batch that comes with gold programs: still unconstrained
C16_WitnessEvaluation ==
    /\ pc = "decoded"
    /\ ~training
    /\ instance_w_goldprog = <<TRUE, FALSE>>
    /\ Len(search_calls) = 1
    /\ search_calls[1].mode = "unconstrained"

\* the instances with a program of a type the loss has no branch for
UnknownTypeInstances ==
    {i \in 1 .. batch_size :
        \E j \in DOMAIN batch_denotation_types[i] :
            batch_denotation_types[i][j] \notin KnownProgTypes}

FirstUnknownTypeInstance ==
    CHOOSE i \in UnknownTypeInstances : \A k \in UnknownTypeInstances : i <= k

\* an instance without programs ahead of the first unknown-type program: its
\* own exception ends the batch before that program is looked at
StarvedBeforeUnknown ==
    \E k \in 1 .. FirstUnknownTypeInstance - 1 : Len(batch_denotations[k]) = 0

\* C17: a batch with a program of a type other than PassageSpanAnswer,
\* QuestionSpanAnswer and YearDifference fails as a whole: forward never
\* returns (no loss, no answers, for any instance), the loss loop never gets
\* past the instance of that program (it is not skipped), with the loss
\* switched off the answer loop fails in its place, and the exception the
\* program raises is NotImplementedError.
C17_UnknownTypeFailsBatch ==
    UnknownTypeInstances # {} =>
        /\ pc # "answered"
        /\ loss_i < FirstUnknownTypeInstance
        /\ pc = "loss_done" => ~denotation_loss_on
        /\ pc = "error" =>
              /\ Len(predicted_answer) < FirstUnknownTypeInstance
              /\ ~StarvedBeforeUnknown => error = "NotImplementedError"

\* the loss loop fails at the second instance, after the first one was added
C17_Witness ==
    /\ pc = "error"
    /\ error = "NotImplementedError"
    /\ denotation_loss_on
    /\ batch_size = 2
    /\ UnknownTypeInstances = {2}
    /\ loss_i = 1

\* the loss switched off: the answer loop fails
C17_WitnessAnswers ==
    /\ pc = "error"
    /\ error = "NotImplementedError"
    /\ ~denotation_loss_on
    /\ batch_size = 2
    /\ UnknownTypeInstances = {2}
    /\ Len(predicted_answer) = 1

\* C18: once built, the action-to-index map has the productions of the
\* first language as its keys and gives the k-th of them (from 0) the id k;
\* it and the index-to-action list invert each other; reading the start ids
\* leaves both as they were built; and the start ids of every instance are
\* the map's ids of the start productions of the instance's answer types.
C18_ActionMapBijection ==
    pc \in {"built", "returned"} =>
        LET a2i == ret.action2idx_map
            i2a == ret.idx2action_map
            n == Len(call.productions)
        IN  /\ DOMAIN a2i = Range(call.productions)
            /\ DOMAIN i2a = 0 .. n - 1
            /\ \A k \in 1 .. n : a2i[call.productions[k]] = k - 1
            /\ \A a \in DOMAIN a2i : a2i[a] \in DOMAIN i2a /\ i2a[a2i[a]] = a
            /\ \A i \in DOMAIN i2a : i2a[i] \in DOMAIN a2i /\ a2i[i2a[i]] = i
            /\ pc = "returned" =>
                  /\ Len(ret.start_action_ids) = Len(call.answer_types)
                  /\ \A k \in DOMAIN call.answer_types :
                        ret.start_action_ids[k] =
                            {a2i[answer_type_to_action_mapping[t]] :
                                t \in Range(call.answer_types[k])
                                        \cap DOMAIN answer_type_to_action_mapping}

\* a map of five productions read for two instances
C18_Witness ==
    /\ pc = "returned"
    /\ Len(call.productions) = 5
    /\ call.productions[4] = "@start@ -> YearDifference"
    /\ call.answer_types = << <<"passage_number", "year_difference">>, <<"passage_span">> >>
    /\ ret.start_action_ids[1] = {3}
    /\ ret.action2idx_map["@start@ -> YearDifference"] = 3

\* C19: a logical form of the language turned into its action sequence and
\* that sequence turned back into a logical form gives the logical form it
\* started from; so it is for every gold logical form of
\* getGoldLF_datecomparison and getGoldLF_numcomparison, of which each
\* question has two.
C19_RoundTrip ==
    pc = "returned" =>
        /\ call.qtype # None => Len(ret) = 2
        /\ \A k \in DOMAIN ret :
              /\ ret[k].action_sequence # <<>>
              /\ ret[k].back.err = None
              /\ ret[k].back.lf = ret[k].logical_form

\* a date question with a first-token: the lesser-than gold forms, there and
\* back
C19_Witness ==
    /\ pc = "returned"
    /\ call.qtype = DATECOMP_QTYPE
    /\ call.question_tokens = <<"which", "happened", "first">>
    /\ Len(ret) = 2
    /\ ret[2].logical_form =
          "(find_questionSpanAnswer (compare_date_lesser_than find_PassageAttention find_PassageAttention))"
    /\ Len(ret[2].action_sequence) = 5
    /\ ret[2].back.lf = ret[2].logical_form

\* a comparison inside a comparison
C19_WitnessNested ==
    /\ pc = "returned"
    /\ call.qtype = None
    /\ Len(ret[1].action_sequence) = 9
    /\ ret[1].back.lf = call.lf

\* C20: merge_final_states gives a result, keyed by original batch index:
\* with both instance lists non-empty the final states of the k-th
\* supervised instance are found under supervised_instances[k], those of the
\* k-th unsupervised instance under unsupervised_instances[k], and every
\* index of the batch is a key; with no unsupervised instance the result is
\* supervised_final_states as it is.
C20_MergeRekeys ==
    /\ pc = "error" => error # "KeyError"
    /\ (pc = "decoded" /\ training /\ Len(supervised_instances) > 0) =>
          IF Len(unsupervised_instances) = 0
          THEN best_final_states = supervised_final_states
          ELSE /\ DOMAIN best_final_states = 0 .. batch_size - 1
               /\ \A k \in DOMAIN supervised_instances :
                     best_final_states[supervised_instances[k]]
                         = supervised_final_states[k - 1]
               /\ \A k \in DOMAIN unsupervised_instances :
                     best_final_states[unsupervised_instances[k]]
                         = unsup_final_states[k - 1]

\* C21: get_valid_start_actionids gives one set per instance, in the order
\* of the instances; an id is in an instance's set exactly when it is the id
\* of '@start@ -> PassageSpanAnswer' and the instance has answer type
\* 'passage_span', or of '@start@ -> YearDifference' with 'year_difference',
\* or of '@start@ -> QuestionSpanAnswer' with 'question_span'; any other
\* answer type adds nothing and raises nothing.
C21_ValidStartActionIds ==
    pc = "returned" =>
        /\ Len(ret.start_action_ids) = Len(call.answer_types)
        /\ \A k \in DOMAIN call.answer_types :
              LET types == Range(call.answer_types[k])
                  ids == ret.start_action_ids[k]
              IN  /\ ids \subseteq 0 .. Len(call.productions) - 1
                  /\ \A i \in 0 .. Len(call.productions) - 1 :
                        i \in ids <=>
                            \/ /\ call.productions[i + 1] = "@start@ -> PassageSpanAnswer"
                               /\ "passage_span" \in types
                            \/ /\ call.productions[i + 1] = "@start@ -> YearDifference"
                               /\ "year_difference" \in types
                            \/ /\ call.productions[i + 1] = "@start@ -> QuestionSpanAnswer"
                               /\ "question_span" \in types

\* an instance with an unknown answer type only, next to one with two types
C21_Witness ==
    /\ pc = "returned"
    /\ call.answer_types = << <<"passage_number">>, <<"passage_span", "question_span">> >>
    /\ ret.start_action_ids[1] = {}
    /\ Cardinality(ret.start_action_ids[2]) = 2

\* the occurrences of find_PassageAttention the loss is to read: instance,
\* program, position in the program and number k of the occurrence, for the
\* first two occurrences in each program of each strongly supervised
\* instance with a date or number comparison question
SupervisedOccurrences ==
    { x \in (DOMAIN call.actionseqs) \X (1 .. 2) \X (1 .. 9) \X (1 .. 2) :
        /\ call.strongly_supervised[x[1]]
        /\ call.qtypes[x[1]] \in {DATECOMP_QTYPE, NUMCOMP_QTYPE}
        /\ x[2] \in DOMAIN call.actionseqs[x[1]]
        /\ x[3] \in DOMAIN call.actionseqs[x[1]][x[2]]
        /\ call.actionseqs[x[1]][x[2]][x[3]] = FIND_PATTN
        /\ Cardinality({j \in 1 .. x[3] :
                            call.actionseqs[x[1]][x[2]][j] = FIND_PATTN}) = x[4] }

\* C22: every contribution to the question-attention loss is one of these
\* occurrences, its question attention summed against row k of the
\* instance's supervision; when the loss is returned each of them has
\* contributed once, the value is minus the sum of the log contributions over
\* their number, and it is 0, not negated, when there is none.
C22_QuesAttentionLoss ==
    pc = "returned" =>
        /\ \A t \in DOMAIN ret.terms :
              LET x == ret.terms[t]
              IN  /\ << x.ins_idx, x.program, x.action, x.row >> \in SupervisedOccurrences
                  /\ x.l = DotProduct(
                              call.sideargs[x.ins_idx][x.program][x.action].question_attention,
                              call.qattn_supervision[x.ins_idx][x.row])
        /\ ret.err = None =>
              /\ \A o \in SupervisedOccurrences :
                    Cardinality({t \in DOMAIN ret.terms :
                                    << ret.terms[t].ins_idx, ret.terms[t].program,
                                       ret.terms[t].action, ret.terms[t].row >> = o}) = 1
              /\ ret.normalizer = Cardinality(SupervisedOccurrences)
              /\ IF SupervisedOccurrences = {}
                 THEN ret.loss = [sign |-> 1, logs_of |-> <<>>, div |-> 1]
                 ELSE /\ ret.loss.sign = -1
                      /\ ret.loss.div = Cardinality(SupervisedOccurrences)
                      /\ ret.loss.logs_of = [t \in DOMAIN ret.terms |-> ret.terms[t].l]

\* a program with three occurrences, of which two contribute, and a second
\* program with one, next to an instance that is not strongly supervised
C22_Witness ==
    /\ pc = "returned"
    /\ ret.err = None
    /\ Len(call.actionseqs) = 2
    /\ ~call.strongly_supervised[1]
    /\ call.actionseqs[1] # <<>>
    /\ call.qtypes[2] = NUMCOMP_QTYPE
    /\ \E p \in DOMAIN call.actionseqs[2] :
          Cardinality({j \in DOMAIN call.actionseqs[2][p] :
                          call.actionseqs[2][p][j] = FIND_PATTN}) = 3
    /\ ret.normalizer = 3
    /\ ret.loss.sign = -1

\* ------------------------- date_data_augmentation.py: spans of an answer
\* src 12
IGNORED_TOKENS == {"a", "an", "the"}

\* src 13: string.punctuation with the underscore; the double quote, the
\* backslash and the accents of the source's string occur in no token drawn
STRIPPED_CHARACTERS == "!#$%&'()*+,-./:;<=>?@[]^_{|}~"

UpperCase == "ABCDEFGHIJKLMNOPQRSTUVWXYZ"
LowerCase == "abcdefghijklmnopqrstuvwxyz"

\* str.lower
RECURSIVE str_lower(_)
str_lower(s) ==
    IF s = "" THEN ""
    ELSE LET k == str_find(UpperCase, SubSeq(s, 1, 1))
         IN  (IF k = -1 THEN SubSeq(s, 1, 1) ELSE SubSeq(LowerCase, k + 1, k + 1))
                \o str_lower(StrFrom(s, 1))

\* str.strip(chars): without the leading and trailing characters in chars
str_strip(s, chars) ==
    LET keep == {k \in 1 .. Len(s) : str_find(chars, SubSeq(s, k, k)) = -1}
    IN  IF keep = {} THEN ""
        ELSE SubSeq(s, CHOOSE k \in keep : \A j \in keep : k <= j,
                       CHOOSE k \in keep : \A j \in keep : k >= j)

\* src 35, 48: token.lower().strip(STRIPPED_CHARACTERS)
normalized(token) == str_strip(str_lower(token), STRIPPED_CHARACTERS)

\* (the loop stepping over any passage token that is not the next answer token)
RECURSIVE extend_span_SkipAny(_, _, _, _)
extend_span_SkipAny(normalized_tokens, answer_tokens, span_end, answer_index) ==
    IF answer_index < Len(answer_tokens) /\ span_end + 1 < Len(normalized_tokens)
    THEN LET token == normalized_tokens[span_end + 2]
         IN  IF str_strip(answer_tokens[answer_index + 1], STRIPPED_CHARACTERS) = token
             THEN extend_span_SkipAny(normalized_tokens, answer_tokens, span_end + 1, answer_index + 1)
             ELSE extend_span_SkipAny(normalized_tokens, answer_tokens, span_end + 1, answer_index)
    ELSE [span_end |-> span_end, answer_index |-> answer_index]

\* src 60-68: the while loop from one span_start; indices count from 0
RECURSIVE extend_span(_, _, _, _)
extend_span(normalized_tokens, answer_tokens, span_end, answer_index) ==
    IF answer_index < Len(answer_tokens) /\ span_end + 1 < Len(normalized_tokens)
    THEN LET token == normalized_tokens[span_end + 2]
         IN  IF str_strip(answer_tokens[answer_index + 1], STRIPPED_CHARACTERS) = token
             THEN extend_span(normalized_tokens, answer_tokens, span_end + 1, answer_index + 1)
             ELSE IF token \in IGNORED_TOKENS
             THEN extend_span(normalized_tokens, answer_tokens, span_end + 1, answer_index)
             ELSE [span_end |-> span_end, answer_index |-> answer_index]
    ELSE [span_end |-> span_end, answer_index |-> answer_index]

\* src 47-48
answer_tokens_of(answer_text) ==
    LET answer_text_tokens == str_split(answer_text)
    IN  [i \in DOMAIN answer_text_tokens |-> normalized(answer_text_tokens[i])]

\* src 52-70: the spans of one answer text, by span_start
spans_of_answer(normalized_tokens, answer_tokens) ==
    LET starts == SelectSeq([i \in 1 .. Len(normalized_tokens) |-> i - 1],
                            LAMBDA span_start :
                                /\ normalized_tokens[span_start + 1] = answer_tokens[1]
                                /\ extend_span(normalized_tokens, answer_tokens,
                                               span_start, 1).answer_index
                                       = Len(answer_tokens))
    IN  [n \in DOMAIN starts |->
            << starts[n],
               extend_span(normalized_tokens, answer_tokens, starts[n], 1).span_end >>]

\* src 45-70: answer_tokens[0] of an answer text without a word is an
\* IndexError, which ends the call
RECURSIVE spans_of_answers(_, _)
spans_of_answers(normalized_tokens, answer_texts) ==
    IF answer_texts = <<>> THEN [err |-> None, spans |-> <<>>]
    ELSE IF answer_tokens_of(Head(answer_texts)) = <<>>
    THEN [err |-> "IndexError", spans |-> <<>>]
    ELSE LET rest == spans_of_answers(normalized_tokens, Tail(answer_texts))
         IN  [err |-> rest.err,
              spans |-> spans_of_answer(normalized_tokens,
                                        answer_tokens_of(Head(answer_texts)))
                            \o rest.spans]

\* F at the value of x, which is computed once
AtValue(F(_), x) == CHOOSE r \in { F(v) : v \in {x} } : TRUE

\* src 29-71
find_valid_spans(passage_tokens, answer_texts) ==
    AtValue(LAMBDA normalized_tokens : spans_of_answers(normalized_tokens, answer_texts),
            [i \in DOMAIN passage_tokens |-> normalized(passage_tokens[i])])

\* tokens of the passages drawn
MaxPassage == 4
PassageVocabulary == {"The", "War,", "of", "1812"}
SpanPassages == UNION { [1 .. n -> PassageVocabulary] : n \in 0 .. MaxPassage }
SpanAnswers == {"The War", "war of 1812", "the war 1812", "peace", "war peace"}

InitFindSpans ==
    /\ IdleForward
    /\ pc = "call"
    /\ call \in [passage_tokens : SpanPassages, answer_texts : {<<a>> : a \in SpanAnswers}]
    /\ ret = <<>>

FindValidSpansCall ==
    /\ pc = "call"
    /\ ret' = find_valid_spans(call.passage_tokens, call.answer_texts)
    /\ pc' = "returned"
    /\ UNCHANGED << inputs, searchVars, resultVars, lossVars, call, outVars >>

SpecFindSpans == InitFindSpans /\ [][FindValidSpansCall]_vars

\* a passage position s..e holds the answer tokens from the a-th on, in
\* order, with nothing but ignored tokens between them, the last at e
RECURSIVE HoldsInOrder(_, _, _, _, _)
HoldsInOrder(normalized_tokens, answer_tokens, s, e, a) ==
    IF a > Len(answer_tokens) THEN s = e + 1
    ELSE /\ s <= e
         /\ \/ /\ normalized_tokens[s + 1] = answer_tokens[a]
               /\ HoldsInOrder(normalized_tokens, answer_tokens, s + 1, e, a + 1)
            \/ /\ normalized_tokens[s + 1] \in IGNORED_TOKENS
               /\ a > 1
               /\ HoldsInOrder(normalized_tokens, answer_tokens, s + 1, e, a)

\* C29: every span returned lies in the passage, starts on the first answer
\* token and holds the answer's tokens in order up to its last position with
\* only ignored tokens between them; nothing is returned, and nothing
\* raised, for an answer whose first token is not in the passage or whose
\* tokens are not all met before the passage ends.
C29_ValidSpans ==
    pc = "returned" =>
        LET nt == [i \in DOMAIN call.passage_tokens |-> normalized(call.passage_tokens[i])]
            at == answer_tokens_of(call.answer_texts[1])
        IN  /\ ret.err = None
            /\ \A n \in DOMAIN ret.spans :
                  LET s == ret.spans[n][1]
                      e == ret.spans[n][2]
                  IN  /\ 0 <= s /\ s <= e /\ e < Len(call.passage_tokens)
                      /\ nt[s + 1] = at[1]
                      /\ HoldsInOrder(nt, at, s, e, 1)
            /\ (\A i \in DOMAIN nt : nt[i] # at[1]) => ret.spans = <<>>
            /\ (\A s \in 0 .. Len(nt) - 1 : \A e \in s .. Len(nt) - 1 :
                    ~HoldsInOrder(nt, at, s, e, 1)) => ret.spans = <<>>

\* "war of 1812" found in "War, The of 1812": an ignored token is stepped over
C29_Witness ==
    /\ pc = "returned"
    /\ call.passage_tokens = << "War,", "The", "of", "1812" >>
    /\ call.answer_texts = << "war of 1812" >>
    /\ ret.spans = << << 0, 3 >> >>

\* the first answer token is there, the answer is cut short by the passage's end
C29_WitnessCutShort ==
    /\ pc = "returned"
    /\ call.passage_tokens = << "The", "War,", "of" >>
    /\ call.answer_texts = << "war of 1812" >>
    /\ ret.spans = <<>>

\* ----------------------- date_data_augmentation.py: flipping the questions
\* src 17-18
FIRST == "first"
SECOND == "second"

\* src 20-21
FIRST_operator_tokens == << "first", "earlier" >>
SECOND_operator_tokens == << "later", "last", "second" >>

\* list.index from 0; -1 where python raises ValueError
list_index(tokens, t) ==
    LET places == {i \in DOMAIN tokens : tokens[i] = t}
    IN  IF places = {} THEN -1
        ELSE (CHOOSE i \in places : \A j \in places : i <= j) - 1

\* tokens[start:end] for start, end >= 0
list_slice(tokens, start, end) == SubSeq(tokens, start + 1, Min(end, Len(tokens)))

\* str.replace(old, new)
str_replace(s, old, new) == str_join(new, str_split_on(s, old))

\* src 80-92
getQuestionComparisonOperator(question) ==
    LET question_tokens == str_split_on(question, " ")
        has(t) == list_index(question_tokens, t) # -1
    IN  IF has("first") \/ has("earlier") \/ has("forst") \/ has("firts") THEN FIRST
        ELSE IF has("later") \/ has("last") \/ has("second") THEN SECOND
        ELSE SECOND

\* src 110-123: list.index, or 100000 in the except branch
NoSplit == 100000
index_or_NoSplit(tokens, t) ==
    IF list_index(tokens, t) = -1 THEN NoSplit ELSE list_index(tokens, t)

\* src 101-147 on the tokens of a question with one ' or '
event_spans_of(tokens) ==
    LET or_idx == list_index(tokens, "or")
        event2_span == << or_idx + 1, Len(tokens) - 1 >>
        first_split == Min(index_or_NoSplit(tokens, ","),
                           Min(index_or_NoSplit(tokens, ":"),
                               index_or_NoSplit(tokens, "-")))
        split_idx ==
            IF first_split = NoSplit \/ or_idx - first_split <= 1
            THEN IF list_index(tokens, "first") # -1 THEN list_index(tokens, "first")
                 ELSE IF list_index(tokens, "second") # -1 THEN list_index(tokens, "second")
                 ELSE IF list_index(tokens, "last") # -1 THEN list_index(tokens, "last")
                 ELSE list_index(tokens, "later")
            ELSE first_split
    IN  IF split_idx = -1 THEN [err |-> "AssertionError", spans |-> <<>>]
        ELSE [err |-> None,
              spans |-> << IF tokens[or_idx] = ","
                           THEN << split_idx + 1, or_idx - 1 >>
                           ELSE << split_idx + 1, or_idx >>,
                           event2_span >>]

\* src 95-147: spans <<>> stands for None, and else holds event1_span and
\* event2_span; the question's first 'or' is not its first token
quesEvents(qstr) ==
    IF Len(str_split_on(qstr, " or ")) # 2 THEN [err |-> None, spans |-> <<>>]
    ELSE AtValue(LAMBDA tokens : event_spans_of(tokens), str_split_on(qstr, " "))

\* src 156-184: the deep copy with the fields below replaced
event_order_switched(question_answer, tokens, event1_span, event2_span) ==
    LET pretext == list_slice(tokens, 0, event1_span[1])
        event2_text == list_slice(tokens, event2_span[1], event2_span[2])
        mid_text == list_slice(tokens, event1_span[2], event2_span[1])
        event1_text == list_slice(tokens, event1_span[1], event1_span[2])
        end_text == list_slice(tokens, event2_span[2], Len(tokens))
        new_question_text ==
            str_join(" ", pretext \o event2_text \o mid_text \o event1_text \o end_text)
        qevent_date_groundings == question_answer.datecomp_ques_event_date_groundings
        qevent_date_values == question_answer.datecomp_ques_event_date_values
    IN  AtValue(LAMBDA new_text :
                  [question_answer EXCEPT
                      !.question = new_text,
                      !.original_question = new_text,
                      !.answer_question_spans = <<>>,
                      !.datecomp_ques_event_date_groundings =
                            << qevent_date_groundings[2], qevent_date_groundings[1] >>,
                      !.datecomp_ques_event_date_values =
                            << qevent_date_values[2], qevent_date_values[1] >>,
                      !.augmented_data = TRUE],
                new_question_text)

\* src 150-184: value <<>> stands for None
getEventOrderSwitchQuestion(question_answer) ==
    AtValue(LAMBDA event_spans :
              IF event_spans.err # None THEN [err |-> event_spans.err, value |-> <<>>]
              ELSE IF event_spans.spans = <<>> THEN [err |-> None, value |-> <<>>]
              ELSE [err |-> None,
                    value |-> << AtValue(LAMBDA tokens :
                                    event_order_switched(question_answer, tokens,
                                        event_spans.spans[1], event_spans.spans[2]),
                                    str_split_on(question_answer.question, " ")) >>],
            quesEvents(question_answer.question))

\* src 74-77
get_answer_event_order(ans_tokens, event1_tokens, event2_tokens) ==
    LET elems(l) == {l[i] : i \in DOMAIN l}
    IN  IF Cardinality(elems(event1_tokens) \cap elems(ans_tokens))
              > Cardinality(elems(event2_tokens) \cap elems(ans_tokens))
        THEN FIRST ELSE SECOND

\* src 250-262: the question with its operator words replaced; new_tokens
\* holds the draw of random.choice from either list
switched_question_text(question_tokenized_text, new_tokens) ==
    IF getQuestionComparisonOperator(question_tokenized_text) = FIRST
    THEN str_replace(str_replace(str_replace(str_replace(question_tokenized_text,
            "first", new_tokens.second), "earlier", new_tokens.second),
            "forst", new_tokens.second), "firts", new_tokens.second)
    ELSE str_replace(str_replace(str_replace(question_tokenized_text,
            "later", new_tokens.first), "last", new_tokens.first),
            "second", new_tokens.first)

\* src 204-225: the tokens of the event that is not the answer; <<>> where
\* new_ans_tokens[0] raises IndexError
other_event_tokens(qa, question_tokens, passage_tokens, event1_span, event2_span) ==
    LET answer_passage_spans_ == qa.answer_passage_spans
        answer_tokens ==
            IF answer_passage_spans_ # <<>>
            THEN list_slice(passage_tokens, answer_passage_spans_[1][1],
                            answer_passage_spans_[1][2] + 1)
            ELSE str_split_on(qa.answer.spans[1], " ")
        event1_tokens == list_slice(question_tokens, event1_span[1], event1_span[2])
        event2_tokens == list_slice(question_tokens, event2_span[1], event2_span[2])
        answer_event == get_answer_event_order(answer_tokens, event1_tokens, event2_tokens)
    IN  IF answer_event = FIRST THEN event2_tokens ELSE event1_tokens

\* src 237-273 with the spans found for the new answer
operator_switched(qa, found, passage_token_charidxs, original_passage_text, new_question_text) ==
    IF found.err # None THEN [err |-> found.err, value |-> <<>>]
    ELSE IF found.spans = <<>> THEN [err |-> None, value |-> <<>>]
    ELSE LET new_ans_as_passage_span == found.spans[1]
         IN  IF new_ans_as_passage_span[2] + 1 >= Len(passage_token_charidxs)
             THEN [err |-> "IndexError", value |-> <<>>]
             ELSE
             LET new_ans_start_char_offset ==
                     passage_token_charidxs[new_ans_as_passage_span[1] + 1]
                 new_ans_end_charoffset ==
                     passage_token_charidxs[new_ans_as_passage_span[2] + 2]
                 answer_passage_text ==
                     SubSeq(original_passage_text, new_ans_start_char_offset + 1,
                            Min(new_ans_end_charoffset, Len(original_passage_text)))
             IN  IF qa.question = new_question_text
                 THEN [err |-> None, value |-> <<>>]
                 ELSE [err |-> None,
                       value |-> << [qa EXCEPT
                           !.answer = [spans |-> << answer_passage_text >>],
                           !.answer_question_spans = <<>>,
                           !.answer_passage_spans = << new_ans_as_passage_span >>,
                           !.question = new_question_text,
                           !.original_question = new_question_text,
                           !.augmented_data = TRUE] >>]

\* src 201-273 with the event spans of the question
operator_switch_of_events(qa, event_spans, passage_tokens, passage_token_charidxs, original_passage_text, new_tokens) ==
    IF event_spans.err # None THEN [err |-> event_spans.err, value |-> <<>>]
    ELSE IF event_spans.spans = <<>> THEN [err |-> None, value |-> <<>>]
    ELSE AtValue(LAMBDA other_tokens :
            IF other_tokens = <<>> THEN [err |-> "IndexError", value |-> <<>>]
            ELSE LET new_ans_tokens == IF other_tokens[1] = "the"
                                       THEN Tail(other_tokens) ELSE other_tokens
                 IN  AtValue(LAMBDA found :
                         AtValue(LAMBDA new_question_text :
                                    operator_switched(qa, found, passage_token_charidxs,
                                        original_passage_text, new_question_text),
                                 switched_question_text(qa.question, new_tokens)),
                         find_valid_spans(passage_tokens, << str_join(" ", new_ans_tokens) >>)),
            AtValue(LAMBDA question_tokens :
                       other_event_tokens(qa, question_tokens, passage_tokens,
                                          event_spans.spans[1], event_spans.spans[2]),
                    str_split_on(qa.question, " ")))

\* src 187-273: question_answer is <<>> for None and else holds the record;
\* value <<>> stands for None
getQuestionOperatorSwitchQA(question_answer, passage_tokenized_text, passage_token_charidxs, original_passage_text, new_tokens) ==
    IF question_answer = <<>> THEN [err |-> "TypeError", value |-> <<>>]
    ELSE AtValue(LAMBDA event_spans :
            AtValue(LAMBDA passage_tokens :
                       operator_switch_of_events(question_answer[1], event_spans,
                            passage_tokens, passage_token_charidxs,
                            original_passage_text, new_tokens),
                    str_split_on(passage_tokenized_text, " ")),
            quesEvents(question_answer[1].question))

\* src 299-324: the records appended after the original's
appended_records(event_switch, qoperator_switch, event_sw_qoperator_sw) ==
    IF qoperator_switch.err # None
    THEN [err |-> qoperator_switch.err, new_qa_pairs |-> <<>>]
    ELSE IF event_sw_qoperator_sw.err # None
    THEN [err |-> event_sw_qoperator_sw.err, new_qa_pairs |-> <<>>]
    ELSE [err |-> None,
          new_qa_pairs |->
              event_switch.value
              \o qoperator_switch.value
              \o (IF event_sw_qoperator_sw.value # <<>> THEN event_switch.value ELSE <<>>)]

\* src 290-324: the records appended for one question; draws holds the two
\* draws of random.choice, one for each call of getQuestionOperatorSwitchQA.
\* An exception ends the run where it is raised
flipped_question(question_answer, passage_info, draws) ==
    AtValue(LAMBDA event_switch_question_answer :
        IF event_switch_question_answer.err # None
        THEN [err |-> event_switch_question_answer.err, new_qa_pairs |-> <<>>]
        ELSE
        AtValue(LAMBDA qoperator_switch_question_answer :
            IF qoperator_switch_question_answer.err # None
            THEN [err |-> qoperator_switch_question_answer.err, new_qa_pairs |-> <<>>]
            ELSE
            AtValue(LAMBDA event_sw_qoperator_sw_question_answer :
                AtValue(LAMBDA appended :
                           [err |-> appended.err,
                            new_qa_pairs |-> IF appended.err # None THEN <<>>
                                             ELSE << question_answer >>
                                                    \o appended.new_qa_pairs],
                        appended_records(event_switch_question_answer,
                                         qoperator_switch_question_answer,
                                         event_sw_qoperator_sw_question_answer)),
                getQuestionOperatorSwitchQA(event_switch_question_answer.value,
                    passage_info.passage, passage_info.passage_charidxs,
                    passage_info.original_passage, draws[2])),
            getQuestionOperatorSwitchQA(<< question_answer >>, passage_info.passage,
                passage_info.passage_charidxs, passage_info.original_passage, draws[1])),
        getEventOrderSwitchQuestion(question_answer))

\* src 290: the loop over the questions of one passage, the n-th question
\* using the draws 2n - 1 and 2n of draws
RECURSIVE flipped_qa_pairs(_, _, _)
flipped_qa_pairs(qa_pairs, passage_info, draws) ==
    IF qa_pairs = <<>> THEN [err |-> None, new_qa_pairs |-> <<>>]
    ELSE AtValue(LAMBDA one :
            IF one.err # None THEN one
            ELSE AtValue(LAMBDA rest :
                    [err |-> rest.err,
                     new_qa_pairs |-> IF rest.err # None THEN <<>>
                                      ELSE one.new_qa_pairs \o rest.new_qa_pairs],
                    flipped_qa_pairs(Tail(qa_pairs), passage_info, Tail(Tail(draws)))),
            flipped_question(Head(qa_pairs), passage_info, draws))

\* src 276-335: the dataset as the list of its passages in the order of the
\* dict; draws holds the draws of each passage's questions
RECURSIVE getFlippedQuestions(_, _)
getFlippedQuestions(dataset, draws) ==
    IF dataset = <<>> THEN [err |-> None, new_dataset |-> <<>>]
    ELSE AtValue(LAMBDA flipped :
            IF flipped.err # None THEN [err |-> flipped.err, new_dataset |-> <<>>]
            ELSE AtValue(LAMBDA rest :
                    [err |-> rest.err,
                     new_dataset |->
                         IF rest.err # None THEN <<>>
                         ELSE << [Head(dataset) EXCEPT !.qa_pairs = flipped.new_qa_pairs] >>
                                  \o rest.new_dataset],
                    getFlippedQuestions(Tail(dataset), Tail(draws))),
            flipped_qa_pairs(Head(dataset).qa_pairs, Head(dataset), Head(draws)))

\* the questions drawn: "Which happened <operator> <separator> A or B ?"
\* with any of the operator words or none,
\* with a separator or none, and events with and without an article, a
\* hyphen or a closing comma
OperatorWords == {"first", "earlier", "later", "last", "second", ""}
Separators == {",", ":", ""}
EventPairs ==
    { << <<"the", "war">>, <<"the", "treaty">> >>,
      << <<"the", "treaty">>, <<"the", "Anglo", "-", "Dutch", "war">> >>,
      << <<"the", "war", ",">>, <<"treaty">> >> }

ComparisonQuestions ==
    { str_join(" ", SelectSeq(<<"Which", "happened", op, sep>>, LAMBDA w : w # "")
                        \o ev[1] \o <<"or">> \o ev[2] \o <<"?">>) :
        op \in OperatorWords, sep \in Separators, ev \in EventPairs }

\* questions with two separators ' or ', with none, with operator words of
\* both lists, and with a word that only contains an operator word
OtherQuestions ==
    { "Which happened first , the war or the siege or the treaty ?",
      "When was the war ?",
      "Which happened first and which later , the war or the treaty ?",
      "Which lasted longer , the war or the treaty ?" }

\* a passage that tells of both events and one that tells of neither, each
\* with the character offsets of its tokens in the original text
Passages ==
    { [passage |-> "The war began in 1914 . The treaty was signed in 1919 .",
       passage_charidxs |-> << 0, 4, 8, 14, 17, 21, 23, 27, 34, 38, 45, 48, 52 >>,
       original_passage |-> "The war began in 1914. The treaty was signed in 1919."],
      [passage |-> "The siege ended in 1920 .",
       passage_charidxs |-> << 0, 4, 10, 16, 19, 23 >>,
       original_passage |-> "The siege ended in 1920."] }

\* the answer as a passage span or as a text alone
Answers ==
    { [answer_passage_spans |-> << << 0, 1 >> >>, answer |-> [spans |-> << "The war" >>]],
      [answer_passage_spans |-> <<>>, answer |-> [spans |-> << "treaty" >>]] }

QuestionAnswer(q, ans) ==
    [question |-> q,
     original_question |-> q,
     answer_question_spans |-> << << 3, 4 >> >>,
     answer_passage_spans |-> ans.answer_passage_spans,
     answer |-> ans.answer,
     datecomp_ques_event_date_groundings |-> << << 1, 0 >>, << 0, 1 >> >>,
     datecomp_ques_event_date_values |-> << 1914, 1919 >>,
     augmented_data |-> FALSE]

PassageInfo(psg, qa_pairs) ==
    [passage |-> psg.passage, passage_charidxs |-> psg.passage_charidxs,
     original_passage |-> psg.original_passage, qa_pairs |-> qa_pairs]

\* datasets of one passage with one question
Datasets ==
    { << PassageInfo(psg, << QuestionAnswer(q, ans) >>) >> :
        q \in ComparisonQuestions \cup OtherQuestions, ans \in Answers, psg \in Passages }

\* the outcomes of random.choice in one call of getQuestionOperatorSwitchQA
Draws ==
    [first : {FIRST_operator_tokens[i] : i \in DOMAIN FIRST_operator_tokens},
     second : {SECOND_operator_tokens[i] : i \in DOMAIN SECOND_operator_tokens}]

InitAugment ==
    /\ IdleForward
    /\ pc = "call"
    /\ call \in [dataset : Datasets]
    /\ ret = <<>>

\* the first question of the dataset
FirstQuestion == call.dataset[1].qa_pairs[1]

\* getEventOrderSwitchQuestion, and once more on the record it returned
EventOrderSwitchCall ==
    /\ pc = "call"
    /\ \E once \in {getEventOrderSwitchQuestion(FirstQuestion)} :
          ret' = [op |-> "getEventOrderSwitchQuestion",
                  once |-> once,
                  twice |-> IF once.value = <<>> THEN once
                            ELSE getEventOrderSwitchQuestion(once.value[1])]
    /\ pc' = "returned"
    /\ UNCHANGED << inputs, searchVars, resultVars, lossVars, call, outVars >>

QuestionOperatorSwitchCall ==
    /\ pc = "call"
    /\ \E new_tokens \in Draws :
          ret' = [op |-> "getQuestionOperatorSwitchQA",
                  new_tokens |-> new_tokens,
                  result |-> getQuestionOperatorSwitchQA(<< FirstQuestion >>,
                                call.dataset[1].passage, call.dataset[1].passage_charidxs,
                                call.dataset[1].original_passage, new_tokens)]
    /\ pc' = "returned"
    /\ UNCHANGED << inputs, searchVars, resultVars, lossVars, call, outVars >>

\* the operator words of a number comparison in the place of those of a
\* date comparison
num_counterpart(question_tokens) ==
    [i \in DOMAIN question_tokens |->
        IF question_tokens[i] \in {"first", "earlier", "forst", "firts"} THEN "fewer"
        ELSE IF question_tokens[i] \in {"later", "last", "second"} THEN "more"
        ELSE question_tokens[i]]

\* the operator read from one question by the augmentation script and by
\* the parser's gold logical forms
ComparisonOperatorsCall ==
    /\ pc = "call"
    /\ LET question_tokens == str_split_on(FirstQuestion.question, " ")
       IN  ret' = [op |-> "operators",
                   question_tokens |-> question_tokens,
                   ques_operator |-> getQuestionComparisonOperator(FirstQuestion.question),
                   date_lfs |-> getGoldLF_datecomparison(question_tokens,
                                                         all_possible_productions),
                   num_lfs |-> getGoldLF_numcomparison(num_counterpart(question_tokens),
                                                       all_possible_productions)]
    /\ pc' = "returned"
    /\ UNCHANGED << inputs, searchVars, resultVars, lossVars, call, outVars >>

NextAugment ==
    \/ EventOrderSwitchCall
    \/ QuestionOperatorSwitchCall
    \/ ComparisonOperatorsCall

SpecAugment == InitAugment /\ [][NextAugment]_vars

\* ------------------------------------------------- getFlippedQuestions
\* questions with an operator word of either list, without one, without
\* the separator ' or ', with two of them, and without anything to split at
FlippedQuestions ==
    { "Which happened first , the war or the treaty ?",
      "Which happened later : the treaty or the war ?",
      "Which happened , the war or the treaty ?",
      "Which lasted longer , the war or the treaty ?",
      "When was the war ?",
      "Which happened first , the war or the siege or the treaty ?",
      "Which happened the war or the treaty ?" }

\* datasets of one passage with one question, of one passage with two
\* questions, and of two passages with one question each
FirstQuestions == {"Which happened first , the war or the treaty ?", "When was the war ?"}
SecondQuestion == "Which happened later : the treaty or the war ?"
FirstAnswer == CHOOSE ans \in Answers : ans.answer_passage_spans # <<>>
WarPassage == CHOOSE psg \in Passages : Len(psg.passage_charidxs) > 6
FlippedDatasets ==
    { << PassageInfo(psg, << QuestionAnswer(q, ans) >>) >> :
        q \in FlippedQuestions, ans \in Answers, psg \in Passages }
    \cup
    { << PassageInfo(WarPassage, << QuestionAnswer(q1, FirstAnswer),
                                    QuestionAnswer(SecondQuestion, FirstAnswer) >>) >> :
        q1 \in FirstQuestions }
    \cup
    { << PassageInfo(WarPassage, << QuestionAnswer(q1, FirstAnswer) >>),
         PassageInfo(WarPassage, << QuestionAnswer(SecondQuestion, FirstAnswer) >>) >> :
        q1 \in FirstQuestions }

\* the draws of a run of getFlippedQuestions: two for each question of each
\* passage
DrawsOfPassage(passage_info) == [1 .. 2 * Len(passage_info.qa_pairs) -> Draws]
DrawsOfDataset(dataset) ==
    IF Len(dataset) = 1 THEN { << d >> : d \in DrawsOfPassage(dataset[1]) }
    ELSE { << d1, d2 >> : d1 \in DrawsOfPassage(dataset[1]), d2 \in DrawsOfPassage(dataset[2]) }

InitFlipped ==
    /\ IdleForward
    /\ pc = "call"
    /\ call \in [dataset : FlippedDatasets]
    /\ ret = <<>>

FlippedQuestionsCall ==
    /\ pc = "call"
    /\ \E draws \in DrawsOfDataset(call.dataset) :
          ret' = [op |-> "getFlippedQuestions",
                  draws |-> draws,
                  result |-> getFlippedQuestions(call.dataset, draws)]
    /\ pc' = "returned"
    /\ UNCHANGED << inputs, searchVars, resultVars, lossVars, call, outVars >>

SpecFlipped == InitFlipped /\ [][FlippedQuestionsCall]_vars

\* C23: the records appended for one original question are all different,
\* and the fourth of them, when there is one, is the record made by the
\* operator switch of the event-switched question.
C23_NoRecordTwice ==
    (pc = "returned" /\ ret.result.err = None /\ Len(call.dataset) = 1
        /\ Len(call.dataset[1].qa_pairs) = 1) =>
        LET new_qa_pairs == ret.result.new_dataset[1].qa_pairs
        IN  /\ \A i, j \in DOMAIN new_qa_pairs : i # j => new_qa_pairs[i] # new_qa_pairs[j]
            /\ Len(new_qa_pairs) = 4 =>
                  << new_qa_pairs[4] >> =
                      getQuestionOperatorSwitchQA(<< new_qa_pairs[2] >>,
                          call.dataset[1].passage, call.dataset[1].passage_charidxs,
                          call.dataset[1].original_passage, ret.draws[1][2]).value

\* C24: the run ends without an exception, the original records are in the
\* result in their order, passage by passage, and a question that quesEvents
\* returns None for has its original record alone.
C24_CompletesAndKeepsOriginals ==
    pc = "returned" =>
        /\ ret.result.err = None
        /\ Len(ret.result.new_dataset) = Len(call.dataset)
        /\ \A p \in DOMAIN call.dataset :
              SelectSeq(ret.result.new_dataset[p].qa_pairs, LAMBDA qa : ~qa.augmented_data)
                  = call.dataset[p].qa_pairs
        /\ \A p \in DOMAIN call.dataset :
              (\A i \in DOMAIN call.dataset[p].qa_pairs :
                    quesEvents(call.dataset[p].qa_pairs[i].question)
                        = [err |-> None, spans |-> <<>>])
                 => ret.result.new_dataset[p].qa_pairs = call.dataset[p].qa_pairs

\* C25: where getEventOrderSwitchQuestion returns a record, the question
\* has as many tokens as before and the groundings and date values are
\* exchanged, and switching that record once more gives the question text,
\* groundings and date values of the original.
C25_EventSwitchInvolution ==
    (pc = "returned" /\ ret.op = "getEventOrderSwitchQuestion" /\ ret.once.value # <<>>) =>
        LET original == FirstQuestion
            once == ret.once.value[1]
        IN  /\ Len(str_split_on(once.question, " ")) = Len(str_split_on(original.question, " "))
            /\ once.datecomp_ques_event_date_groundings =
                  << original.datecomp_ques_event_date_groundings[2],
                     original.datecomp_ques_event_date_groundings[1] >>
            /\ once.datecomp_ques_event_date_values =
                  << original.datecomp_ques_event_date_values[2],
                     original.datecomp_ques_event_date_values[1] >>
            /\ ret.twice.err = None
            /\ ret.twice.value # <<>>
            /\ ret.twice.value[1].question = original.question
            /\ ret.twice.value[1].datecomp_ques_event_date_groundings
                  = original.datecomp_ques_event_date_groundings
            /\ ret.twice.value[1].datecomp_ques_event_date_values
                  = original.datecomp_ques_event_date_values

\* a question with a token of either operator list
HasOperatorWord(question) ==
    \E t \in {"first", "earlier", "forst", "firts", "later", "last", "second"} :
        list_index(str_split_on(question, " "), t) # -1

\* C26: a record returned by getQuestionOperatorSwitchQA has a question of
\* the opposite operator, whatever token was drawn, and no record is
\* returned for a question without an operator word.
C26_OperatorSwitched ==
    (pc = "returned" /\ ret.op = "getQuestionOperatorSwitchQA") =>
        /\ ret.result.value # <<>> =>
              getQuestionComparisonOperator(ret.result.value[1].question)
                  # getQuestionComparisonOperator(FirstQuestion.question)
        /\ (ret.result.err = None /\ ~HasOperatorWord(FirstQuestion.question))
              => ret.result.value = <<>>

\* the comparison of a gold logical form
UsesLesserThan(lf) == str_find(lf, "_lesser_than") # -1
UsesGreaterThan(lf) == str_find(lf, "_greater_than") # -1

\* C27: the gold logical forms of a date comparison use lesser_than exactly
\* when getQuestionComparisonOperator says FIRST and greater_than exactly
\* when it says SECOND; a question with words of both lists is read as
\* lesser_than, as the number comparison reads its own; without an operator
\* word all are greater_than and SECOND.
C27_OperatorsAgree ==
    (pc = "returned" /\ ret.op = "operators") =>
        /\ \A n \in DOMAIN ret.date_lfs :
              /\ UsesLesserThan(ret.date_lfs[n]) <=> ret.ques_operator = FIRST
              /\ UsesGreaterThan(ret.date_lfs[n]) <=> ret.ques_operator = SECOND
              /\ UsesLesserThan(ret.date_lfs[n]) <=> UsesLesserThan(ret.num_lfs[n])
        /\ ~HasOperatorWord(FirstQuestion.question) =>
              /\ ret.ques_operator = SECOND
              /\ \A n \in DOMAIN ret.date_lfs :
                    UsesGreaterThan(ret.date_lfs[n]) /\ UsesGreaterThan(ret.num_lfs[n])

\* ------------------------------ passage_attn2span.py: DROPReader._read
\* largest value drawn for a length or a number of samples of the reader
MaxLength == 3
MaxSamples == 2

\* (the end position taken one past the span)
read_instance_EndExclusive(passage_length, span_length, start_position) ==
    LET end_position == start_position + span_length
    IN  [passage_attention |->
            [i \in 1 .. passage_length |->
                IF start_position <= i - 1 /\ i - 1 <= end_position THEN 1 ELSE 0],
         passage_lengths |-> passage_length,
         answer_as_passage_spans |-> << start_position, end_position >>]

\* src 71-95: the fields of one instance from the three draws; the
\* attention is the list before noise and normalisation, 1 for 1.0 and 0
\* for 0.0
read_instance(passage_length, span_length, start_position) ==
    LET end_position == start_position + span_length - 1
    IN  [passage_attention |->
            [i \in 1 .. passage_length |->
                IF start_position <= i - 1 /\ i - 1 <= end_position THEN 1 ELSE 0],
         passage_lengths |-> passage_length,
         answer_as_passage_spans |-> << start_position, end_position >>]

\* random.randint(a, b): the values it can return; none where it raises
\* ValueError
randint(a, b) == a .. b

\* src 38-55: the constructor parameters kept
InitReader ==
    /\ IdleForward
    /\ pc = "read"
    /\ call \in [min_passage_length : 0 .. MaxLength,
                 max_passage_length : 0 .. MaxLength,
                 max_span_length : 0 .. MaxLength,
                 num_training_samples : 0 .. MaxSamples]
    /\ ret = [instances |-> <<>>, err |-> None]

\* src 66-97: one round of the loop; a randint over an empty range ends
\* the call with ValueError
ReadSample ==
    /\ pc = "read"
    /\ Len(ret.instances) < call.num_training_samples
    /\ \/ \E passage_length \in randint(call.min_passage_length, call.max_passage_length) :
          \E span_length \in randint(1, call.max_span_length) :
             \/ \E start_position \in randint(0, passage_length - span_length) :
                   /\ ret' = [ret EXCEPT !.instances =
                                 Append(@, read_instance(passage_length, span_length,
                                                         start_position))]
                   /\ pc' = pc
             \/ /\ randint(0, passage_length - span_length) = {}
                /\ ret' = [ret EXCEPT !.err = "ValueError"]
                /\ pc' = "error"
       \/ /\ \/ randint(call.min_passage_length, call.max_passage_length) = {}
             \/ randint(1, call.max_span_length) = {}
          /\ ret' = [ret EXCEPT !.err = "ValueError"]
          /\ pc' = "error"
    /\ UNCHANGED << inputs, searchVars, resultVars, lossVars, call, outVars >>

\* src 99
ReadReturn ==
    /\ pc = "read"
    /\ Len(ret.instances) = call.num_training_samples
    /\ pc' = "returned"
    /\ UNCHANGED << inputs, searchVars, resultVars, lossVars, callVars, outVars >>

NextReader ==
    \/ ReadSample
    \/ ReadReturn

SpecReader == InitReader /\ [][NextReader]_vars

\* the gold span, the passage length and the attention of one instance
GoldSpanInPassage(instance) ==
    LET start_position == instance.answer_as_passage_spans[1]
        end_position == instance.answer_as_passage_spans[2]
        passage_length == instance.passage_lengths
    IN  /\ 0 <= start_position
        /\ start_position <= end_position
        /\ end_position < passage_length
        /\ 1 <= end_position - start_position + 1
        /\ end_position - start_position + 1 <= call.max_span_length
        /\ call.min_passage_length <= passage_length
        /\ passage_length <= call.max_passage_length
        /\ Len(instance.passage_attention) = passage_length
        /\ \A i \in 0 .. passage_length - 1 :
              instance.passage_attention[i + 1] =
                  (IF start_position <= i /\ i <= end_position THEN 1 ELSE 0)

\* C28 as stated: every instance has its gold span, of a length within
\* max_span_length, inside a passage of a length within the bounds, with
\* attention 1.0 on the span alone, and _read returns num_training_samples
\* instances whatever the constructor parameters are.
C28_EveryConfiguration ==
    /\ \A n \in DOMAIN ret.instances : GoldSpanInPassage(ret.instances[n])
    /\ pc = "returned" => Len(ret.instances) = call.num_training_samples
    /\ pc # "error"

\* parameters with which every span length drawn fits every passage length
\* drawn
SpansFitPassages ==
    /\ 1 <= call.max_span_length
    /\ call.max_span_length <= call.min_passage_length
    /\ call.min_passage_length <= call.max_passage_length

\* C28 amended: the same of every instance, and _read returns
\* num_training_samples instances for constructor parameters with
\* 1 <= max_span_length <= min_passage_length <= max_passage_length.
C28_ReaderInstances ==
    /\ \A n \in DOMAIN ret.instances : GoldSpanInPassage(ret.instances[n])
    /\ pc = "returned" => Len(ret.instances) = call.num_training_samples
    /\ SpansFitPassages => pc # "error"

\* two instances returned, one with a span of two in the middle of a
\* passage of three
C28_Witness ==
    /\ pc = "returned"
    /\ SpansFitPassages
    /\ call.num_training_samples = 2
    /\ Len(ret.instances) = 2
    /\ ret.instances[2].passage_lengths = 3
    /\ ret.instances[2].answer_as_passage_spans = << 1, 2 >>
    /\ ret.instances[2].passage_attention = << 0, 1, 1 >>

\* C30: the two grounding routers return as many programs and dicts as they
\* got, in their places; a dict holds what it held, and besides that the
\* router's key exactly where the action beside it is one of the router's
\* two comparison actions, with the grounding pair of its own instance.
C30_GroundingRouterFrame ==
    (pc = "returned" /\ ret.router \in {"datecompare", "numcompare"}) =>
        LET own_actions == IF ret.router = "datecompare" THEN {DATE_GT, DATE_LT}
                           ELSE {NUM_GT, NUM_LT}
            own_key == IF ret.router = "datecompare" THEN "event_date_groundings"
                       ELSE "event_num_groundings"
        IN  /\ ret.err = None
            /\ DOMAIN ret.sideargs = DOMAIN call.actionseqs
            /\ \A ins_idx \in DOMAIN call.actionseqs :
                  /\ DOMAIN ret.sideargs[ins_idx] = DOMAIN call.actionseqs[ins_idx]
                  /\ \A p \in DOMAIN call.actionseqs[ins_idx] :
                        /\ DOMAIN ret.sideargs[ins_idx][p] = DOMAIN call.actionseqs[ins_idx][p]
                        /\ \A j \in DOMAIN call.actionseqs[ins_idx][p] :
                              LET before == call.sideargs[ins_idx][p][j]
                                  after == ret.sideargs[ins_idx][p][j]
                              IN  /\ DOMAIN before \subseteq DOMAIN after
                                  /\ DOMAIN after \subseteq DOMAIN before \cup {own_key}
                                  /\ \A k \in DOMAIN before \ {own_key} : after[k] = before[k]
                                  /\ own_key \in DOMAIN after
                                        <=> call.actionseqs[ins_idx][p][j] \in own_actions
                                  /\ own_key \in DOMAIN after
                                        => after[own_key] = call.groundings[ins_idx]

\* two instances with different groundings and a number comparison each
C30_Witness ==
    /\ pc = "returned"
    /\ ret.router = "numcompare"
    /\ Len(call.actionseqs) = 2
    /\ call.actionseqs[1] = << RouterPrograms[3], RouterPrograms[5] >>
    /\ call.actionseqs[2] = << RouterPrograms[4], RouterPrograms[6] >>
    /\ call.groundings[1] # call.groundings[2]
    /\ ret.sideargs[1][1][4].event_num_groundings = call.groundings[1]
    /\ ret.sideargs[2][1][6].event_num_groundings = call.groundings[2]
    /\ DOMAIN ret.sideargs[1][2][2] = {"question_attention"}
    /\ DOMAIN ret.sideargs[2][1][7] = {"question_attention"}

====
